---- MODULE Spec2Model ----
(***************************************************************************)
(* A model of the RTSP multi-camera ingestion programs of the repository:  *)
(* the connection classes (FFmpegSingleCam, GStreamerSingleCam and the     *)
(* RTSPStreamer classes of assignment 3), their latest-frame slots, and    *)
(* the loops that drive them.                                              *)
(*                                                                         *)
(* Time is a discrete clock `now` (one unit = one second of time.time());  *)
(* it never runs backwards, and two readings may be equal.  A decoded      *)
(* frame is represented by its identity, the number of the successful      *)
(* backend read that produced it.  A backend handle (cv2.VideoCapture) is  *)
(* represented by the number of the VideoCapture(url) call that made it.   *)
(* The clock is advanced only while some thread waits for it or is about   *)
(* to read it: between two readings nothing observes it.                   *)
(***************************************************************************)
EXTENDS Integers, Sequences, FiniteSets

\* ------------------------------------------------------------------ bounds
\* Largest clock value the connect harness explores.
MaxClock == 5
\* Largest clock value the slot harness explores.
SlotClock == 3
\* Largest number of successful backend reads (distinct frames) in a run.
MaxFrames == 3
\* Largest number of frames one camera delivers when several are connected.
MultiFrames == 3
\* Largest try_times a caller of the harness passes to connect_cam.
MaxTry == 3
\* Largest try_interval (seconds) a caller of the harness passes.
MaxInterval == 2
\* Largest number of connect calls the client of the connect harness makes.
MaxConnects == 1
\* Largest number of connect calls the client of the slot harness makes.
SlotConnects == 1
\* Largest number of time.sleep(0.01) calls counted in one grab_frame call.
MaxGrabSleeps == 1
\* Largest number of release calls in a row the client of a harness makes.
MaxReleases == 2
\* Largest clock value the threaded report program explores.
ThrClock == 4
\* The duration (seconds) process_streamers is run for.
RunDuration == 2
\* Largest clock value the MultiCamVisualizer program explores.
VisClock == 4
\* MultiCamVisualizer.duration (seconds).
VisDuration == 3
\* Largest clock value of a run explored to its end: above the sum of the
\* retry sleeps of connect_cameras and of a child, the run duration and the
\* grab timeouts.
LiveClock == 40
\* Largest clock value connect_cameras is explored to when it is given
\* several URLs.
MultiConnClock == 11
\* MultiCamVisualizer.duration (seconds) when it is given several URLs.
MultiDuration == 2
\* The seconds run() is then explored for: the sequential mode, and the
\* multithread and multiproc modes.
MultiSeqClock == 5
MultiRunClock == 2

\* Largest number of frames one camera of the sequential report program delivers.
SeqFrames == 2
\* Largest clock value the sequential report program explores.
SeqClock == 7
\* The duration (seconds) the sequential process_streamers is run for.
SeqDuration == 5

\* Python's None for a handle, a frame or a time stamp (the clock starts at 1).
None == 0

\* MultiCamVisualizer: the streamers connect_cameras can put into its list
\* (one per URL), and the streamer the child process started for streamer s
\* of the multiproc mode builds for itself.
UrlObjs == {1, 2}
Child(s) == s + Cardinality(UrlObjs)
\* The connection objects of a run.
Sources == UrlObjs \cup {Child(s) : s \in UrlObjs}
\* The camera behind an object: a child process opens its parent's url
\* (multicam_visualizer.py:228, cam_class(url)).
Cam(s) == IF s \in UrlObjs THEN s ELSE s - Cardinality(UrlObjs)
\* The object the API harness drives.
CamObjs == {1}
\* The streamers main() of the threaded report program creates (rtsp_urls).
ThrObjs == {1}
\* The streamers main() of the sequential report program creates (rtsp_urls).
SeqObjs == {1, 2}

VARIABLES
    prog,               \* which program of the repository runs
    cls,                \* cls[s]: the class of connection object s
    backend,            \* backend[s]: "dead" (never answers), "live" (any open
                        \*   or read may fail) or "steady" (answers every
                        \*   connect; a later read may still fail)
    hN,                 \* the try_times the harness is configured with
    hX,                 \* the try_interval the harness is configured with
    now,                \* time.time()
    nexth,              \* number of VideoCapture(url) calls so far
    openh,              \* the handles that are open (not yet released)
    nframes,            \* per camera: number of successful backend reads so far
    ncalls,             \* number of connect calls the harness has made
    nrel,               \* number of release calls the harness has made
                        \*   since its last connect call
    cap,                \* cap[s]: self.cap / self.__cap
    first_start_time,   \* first_start_time[s]
    latest_frame,       \* latest_frame[s]
    latest_timestamp,   \* latest_timestamp[s]
    frame_count,        \* frame_count[s]
    read_start_time,    \* read_start_time[s]
    meth,               \* meth[s]: the method running on object s
    mpc,                \* mpc[s]: where the method running on object s stands
    mret,               \* mret[s]: what the method returned
    rframe,             \* rframe[s]: the frame of a returned (frame, timestamp)
    rts,                \* rts[s]: the timestamp of a returned (frame, timestamp)
    try_times,          \* try_times[s]: argument of the running connect
    try_interval,       \* try_interval[s]: argument of the running connect
    attempt,            \* attempt[s]: iterations of the for loop started
    lcap,               \* lcap[s]: the local `cap` of the running connect
    lframe,             \* lframe[s]: the local `frame` of the running method
    wake,               \* wake[s]: when the running time.sleep returns
    cstart,             \* cstart[s]: clock when the running method was called
    opens,              \* opens[s]: VideoCapture(url) calls of the running connect
    waits,              \* waits[s]: time.sleep calls the running connect or
                        \*   grab_frame completed
    ppc,                \* ppc[s]: where a concurrent get_frame on s stands
    pframe,             \* pframe[s]: the frame get_frame has read
    pts,                \* pts[s]: the timestamp get_frame has read
    ptsof,              \* ptsof[s]: the frame whose publish wrote that timestamp
    pdirty,             \* pdirty[s]: a publish wrote the slot during the get_frame
    npub,               \* npub[s]: publishes into the slot of s completed
    lastpub,            \* lastpub[s]: the frame of the last completed publish,
                        \*   the one that wrote latest_timestamp[s]
    lock,               \* lock[s]: the thread inside `with self.lock`, or "free"
    stopped,            \* stopped[s]: self.stopped
    tpc,                \* tpc[s]: where the capture thread of s stands
    tframe,             \* tframe[s]: the local `frame` of the capture thread
    tts,                \* tts[s]: the local `now` of the appsink callback
    taken,              \* taken[s]: a take has touched the slot since the last
                        \*   completed publish
    run_mode,           \* MultiCamVisualizer.run_mode
    is_visualized,      \* MultiCamVisualizer.__is_visualized
    wpc,                \* wpc[s]: where the worker (capture thread or child
                        \*   process) of streamer s stands
    wstart,             \* wstart[s]: start_time of that worker's __capture_loop
    wcapture_time,      \* wcapture_time[s]: capture_time of that __capture_loop
    wend,               \* wend[s]: how that __capture_loop was left: "-" (it
                        \*   was not), "duration", "failed" (grab_frame gave
                        \*   None), "key" ('q') or "unconnected" (the child
                        \*   returned before the loop)
    results_dict,       \* results_dict[w]: the entries written so far under
                        \*   window name w (the name of streamer w), and the
                        \*   workers that wrote them
    last_displayed_timestamp,   \* per source
    display_frame_count,        \* per source
    display_start_time,         \* per source
    prevcounted,        \* prevcounted[s]: the timestamp counted before the last one
    lastpass,           \* lastpass[s]: what the last consumer pass on s did
    mainpc,             \* where the main thread stands
    midx,               \* the source the main thread is working on
    active,             \* active_streamers
    kframe,             \* the consumer's local `frame`
    kts,                \* the consumer's local `capture_time`
    ktsof,              \* the frame whose publish wrote that capture_time
    overall_start,      \* overall_start of the running loop
    aborted,            \* the operator has pressed 'q'
    roundcopy,          \* active_streamers[:], the list the running for loop walks
    roundread,          \* the sources read so far in the running round
    dropped,            \* the sources process_streamers has removed
    oldcap,             \* oldcap[s]: the handle s held when its last read failed
    urls,               \* the URLs connect_cameras is given (their indexes)
    streamers,          \* MultiCamVisualizer.__streamers
    lost,               \* the URLs printed as "Failed to connect"
    run_begin,          \* the clock when run() was entered
    duration            \* MultiCamVisualizer.duration (seconds)

cfgvars == <<prog, cls, backend, hN, hX, run_mode, is_visualized, urls,
            duration>>
envvars == <<now, nexth, openh, nframes, ncalls, nrel, nrel>>
objvars == <<cap, first_start_time, latest_frame, latest_timestamp,
             frame_count, read_start_time>>
connvars == <<try_times, try_interval, attempt, lcap, wake, opens, waits>>
methvars == <<meth, mpc, mret, rframe, rts, lframe, cstart, connvars>>
peekvars == <<ppc, pframe, pts, ptsof, pdirty>>
pubvars == <<npub, lastpub>>
thrvars == <<lock, stopped, tpc, tframe>>
gstvars == <<tts, taken>>
workvars == <<wpc, wstart, wcapture_time, wend, results_dict>>
dispvars == <<last_displayed_timestamp, display_frame_count,
              display_start_time, prevcounted, lastpass>>
mainvars == <<mainpc, midx, active, kframe, kts, ktsof, overall_start, aborted>>
roundvars == <<roundcopy, roundread, dropped, oldcap>>
listvars == <<streamers, lost, run_begin>>
orchvars == <<roundvars, listvars>>
drivervars == <<thrvars, gstvars, dispvars, mainvars, workvars>>
vars == <<cfgvars, envvars, objvars, methvars, peekvars, pubvars, drivervars,
          orchvars>>

\* ------------------------------------------------------------ the backend
\* What one `cap = cv2.VideoCapture(url); ret, frame = cap.read()` can do:
\*   open_raises: VideoCapture raises, no handle exists
\*   read_raises: the handle is open and read raises
\*   read_fails : the handle is open and read returns (False, None)
\*   ok         : the handle is open and read returns a frame
FailOutcomes == {"open_raises", "read_raises", "read_fails"}
\* Frames one camera delivers within the explored window.
FrameBound == CASE prog = "vis" /\ Cardinality(urls) > 1 -> MultiFrames
                [] prog = "seqr" -> SeqFrames
                [] OTHER -> MaxFrames
Outcomes(s) == IF backend[s] = "dead" \/ nframes[Cam(s)] >= FrameBound
               THEN FailOutcomes
               ELSE IF backend[s] = "steady"
                    THEN {"ok"}
                    ELSE FailOutcomes \cup {"ok"}

\* What one `ret, frame = self.cap.read()` on an open handle can do.
ReadOutcomes(s) == IF backend[s] = "dead" \/ nframes[Cam(s)] >= FrameBound
                   THEN {"read_fails"}
                   ELSE {"read_fails", "ok"}

\* ------------------------------------------------------------------ clock
\* The next step of the method running on object s reads or awaits the clock.
\* (thread.join(timeout=1.0) waits only while there is a thread that runs.)
MethodReadsClock(s) ==
    \/ mpc[s] \in {"cc_loop", "cc_sleep", "cc_wts", "gf_loop", "gf_wts", "tc_wts",
                   "gg_loop", "gg_time"}
    \/ mpc[s] = "rl_join" /\ tpc[s] \notin {"off", "done", "crashed"}

\* The samples of the pipeline of s are followed.  In multiproc mode the
\* parent connects its streamers, starts one child per streamer and waits in
\* process.join(): no step ever reads the parent's own streamers, whose
\* pipelines go on delivering samples; those deliveries are not followed.
Followed(s) == ~(run_mode = "multiproc" /\ s \in UrlObjs)

\* The next step of the capture thread of s reads the clock.
ThreadReadsClock(s) == tpc[s] = "wts" \/ (tpc[s] = "g_wait" /\ Followed(s))

\* The next step of the main thread reads the clock.
MainReadsClock ==
    mainpc \in {"t_start", "t_while", "t_proc", "t_final", "v_run", "v_while",
                "v_grab", "v_grabwait", "mt_while", "s_start", "s_while",
                "s_read", "s_final"}

\* The next step of the worker reads the clock.
WorkerReadsClock ==
    \E s \in UrlObjs : wpc[s] \in {"w_start", "w_while", "w_grabwait"}

ClockObserved ==
    \/ \E s \in Sources : MethodReadsClock(s) \/ ThreadReadsClock(s)
    \/ MainReadsClock
    \/ WorkerReadsClock

\* --------------------------------------------- FFmpegSingleCam.grab_frame
\* timeout=1.0, the default every caller of grab_frame in the repository passes
GrabTimeout == 1

\* The sequential loop of MultiCamVisualizer is blocked in a grab_frame whose
\* timeout has not passed.
SeqGrabPending ==
    /\ mainpc = "v_grabwait"
    /\ mpc[midx] \in {"gf_loop", "gg_loop"}
    /\ now - cstart[midx] <= GrabTimeout

\* The last clock value the running program explores.
ClockBound == CASE prog = "cam" -> SlotClock
                [] prog = "thr" -> ThrClock
                [] prog = "vis" /\ Cardinality(urls) = 1 -> VisClock
                [] prog = "vis" /\ run_begin = None ->
                        IF \E s \in Sources : mpc[s] = "cc_sleep"
                        THEN MultiConnClock ELSE now
                [] prog = "vis" /\ run_mode = "seq" ->
                        IF SeqGrabPending THEN run_begin + MultiSeqClock ELSE now
                [] prog = "vis" -> run_begin + MultiRunClock
                [] prog = "seqr" -> SeqClock
                [] OTHER -> MaxClock

Tick ==
    /\ UNCHANGED drivervars
    /\ now < ClockBound
    /\ ClockObserved
    /\ now' = now + 1
    /\ UNCHANGED <<cfgvars, orchvars, nexth, openh, nframes, ncalls, nrel, objvars, methvars,
                   peekvars, pubvars>>

\* ------------------------------------------------ the latest-frame slot
\* A publish into the slot of s is under way: its frame is written and its
\* timestamp is not.
Publishing(s) == mpc[s] \in {"cc_wts", "gf_wts"}

\* A field of the slot of s is written: a get_frame under way is no longer a
\* read performed after the publishes that completed before it.
SlotWritten(s) ==
    pdirty' = [pdirty EXCEPT ![s] = ppc[s] # "idle"]

\* The publish of frame f into the slot of s is complete.
PublishDone(s, f) ==
    /\ npub' = [npub EXCEPT ![s] = @ + 1]
    /\ lastpub' = [lastpub EXCEPT ![s] = f]

\* ----------------------------------------------- connect_cam / connect_server
\* The number of iterations `for attempt in range(try_times)` runs.
RangeLenOffByOne(n) == n + 1
RangeLen(n) == n

\* When the time.sleep(try_interval) that starts now returns, at the earliest.
WakeTimeNoSleep(s) == now
\* A sleep that does not return within a run.
WakeNever(s) == LiveClock + 1
WakeTime(s) == now + try_interval[s]

\* One iteration of the for loop up to its sleep or its success branch.
ConnectAttempt(s) ==
    /\ UNCHANGED drivervars
    /\ mpc[s] = "cc_loop"
    /\ attempt[s] < RangeLen(try_times[s])
    /\ \E o \in Outcomes(s) :
        /\ attempt' = [attempt EXCEPT ![s] = @ + 1]
        /\ opens' = [opens EXCEPT ![s] = @ + 1]
        /\ nexth' = nexth + 1
        /\ IF o = "open_raises"
           THEN /\ UNCHANGED <<openh, lcap, nframes, lframe>>
                /\ UNCHANGED <<cap, first_start_time>>
                /\ wake' = [wake EXCEPT ![s] = WakeTime(s)]
                /\ mpc' = [mpc EXCEPT ![s] = "cc_sleep"]
           ELSE /\ lcap' = [lcap EXCEPT ![s] = nexth + 1]
                /\ CASE o = "read_raises" ->
                          \* except: print, sleep, continue (no release)
                          /\ openh' = (openh \cup {nexth + 1})
                          /\ UNCHANGED <<nframes, lframe, cap, first_start_time>>
                          /\ wake' = [wake EXCEPT ![s] = WakeTime(s)]
                          /\ mpc' = [mpc EXCEPT ![s] = "cc_sleep"]
                     [] o = "read_fails" ->
                          \* cap.release(); time.sleep(try_interval)
                          /\ openh' = openh
                          /\ UNCHANGED <<nframes, lframe, cap, first_start_time>>
                          /\ wake' = [wake EXCEPT ![s] = WakeTime(s)]
                          /\ mpc' = [mpc EXCEPT ![s] = "cc_sleep"]
                     [] o = "ok" ->
                          /\ openh' = (openh \cup {nexth + 1})
                          /\ nframes' = [nframes EXCEPT ![Cam(s)] = @ + 1]
                          /\ lframe' = [lframe EXCEPT ![s] = nframes[Cam(s)] + 1]
                          /\ cap' = [cap EXCEPT ![s] = nexth + 1]
                          /\ first_start_time' =
                                [first_start_time EXCEPT ![s] =
                                    IF @ = None THEN now ELSE @]
                          /\ UNCHANGED wake
                          /\ mpc' = [mpc EXCEPT ![s] = "cc_ok"]
    /\ UNCHANGED <<cfgvars, orchvars, now, ncalls, nrel, latest_frame, latest_timestamp,
                   frame_count, read_start_time, meth, mret, rframe, rts,
                   cstart, try_times, try_interval, waits, peekvars, pubvars>>

\* time.sleep(try_interval) returns once try_interval has passed.
ConnectWake(s) ==
    /\ UNCHANGED drivervars
    /\ mpc[s] = "cc_sleep"
    /\ now >= wake[s]
    /\ mpc' = [mpc EXCEPT ![s] = "cc_loop"]
    /\ waits' = [waits EXCEPT ![s] = @ + 1]
    /\ UNCHANGED <<cfgvars, orchvars, envvars, objvars, meth, mret, rframe, rts, lframe,
                   cstart, try_times, try_interval, attempt, lcap, opens,
                   wake, peekvars, pubvars>>

\* The for loop is exhausted: print "Connection failed", return False.
ConnectExhausted(s) ==
    /\ UNCHANGED drivervars
    /\ mpc[s] = "cc_loop"
    /\ attempt[s] >= RangeLen(try_times[s])
    /\ mpc' = [mpc EXCEPT ![s] = "ret"]
    /\ mret' = [mret EXCEPT ![s] = "False"]
    /\ UNCHANGED <<cfgvars, orchvars, envvars, objvars, meth, rframe, rts, lframe,
                   cstart, connvars, peekvars, pubvars>>

\* RTSPStreamer.connect_server (sequential report variant), success branch:
\* self.visualize_frame(frame); return True.
ConnectShow(s) ==
    /\ UNCHANGED drivervars
    /\ mpc[s] = "cc_ok"
    /\ cls[s] = "RTSPStreamer"
    /\ mpc' = [mpc EXCEPT ![s] = "ret"]
    /\ mret' = [mret EXCEPT ![s] = "True"]
    /\ UNCHANGED <<cfgvars, orchvars, envvars, objvars, meth, rframe, rts, lframe,
                   cstart, connvars, peekvars, pubvars>>

\* FFmpegSingleCam.connect_cam, success branch: self.__latest_frame = frame
ConnectWriteFrame(s) ==
    /\ UNCHANGED drivervars
    /\ mpc[s] = "cc_ok"
    /\ cls[s] = "FFmpegSingleCam"
    /\ latest_frame' = [latest_frame EXCEPT ![s] = lframe[s]]
    /\ SlotWritten(s)
    /\ mpc' = [mpc EXCEPT ![s] = "cc_wts"]
    /\ UNCHANGED <<cfgvars, orchvars, envvars, cap, first_start_time, latest_timestamp,
                   frame_count, read_start_time, meth, mret, rframe, rts, lframe,
                   cstart, connvars, ppc, pframe, pts, ptsof, pubvars>>

\* self.__latest_timestamp = time.time(); return True
ConnectWriteTs(s) ==
    /\ UNCHANGED drivervars
    /\ mpc[s] = "cc_wts"
    /\ latest_timestamp' = [latest_timestamp EXCEPT ![s] = now]
    /\ PublishDone(s, lframe[s])
    /\ SlotWritten(s)
    /\ mpc' = [mpc EXCEPT ![s] = "ret"]
    /\ mret' = [mret EXCEPT ![s] = "True"]
    /\ UNCHANGED <<cfgvars, orchvars, envvars, cap, first_start_time, latest_frame,
                   frame_count, read_start_time, meth, rframe, rts, lframe, cstart,
                   connvars, ppc, pframe, pts, ptsof>>


\* One pass of `while True`: no handle, a read that fails (then the timeout
\* check and time.sleep(0.01)), or a read that yields a frame.
\* time.sleep(0.01) after a read that failed before the timeout; the loop
\* then reads again.  (The sleeps of one call are counted up to
\* MaxGrabSleeps.)
GrabSleep(s) ==
    waits' = [waits EXCEPT ![s] = IF @ < MaxGrabSleeps THEN @ + 1 ELSE @]

GrabRead(s) ==
    /\ UNCHANGED drivervars
    /\ mpc[s] = "gf_loop"
    /\ IF cap[s] = None
       THEN /\ mpc' = [mpc EXCEPT ![s] = "ret"]
            /\ mret' = [mret EXCEPT ![s] = "None"]
            /\ UNCHANGED <<nframes, lframe, waits>>
       ELSE \E o \in ReadOutcomes(s) :
              IF o = "ok"
              THEN /\ nframes' = [nframes EXCEPT ![Cam(s)] = @ + 1]
                   /\ lframe' = [lframe EXCEPT ![s] = nframes[Cam(s)] + 1]
                   /\ mpc' = [mpc EXCEPT ![s] = "gf_wframe"]
                   /\ UNCHANGED <<mret, waits>>
              ELSE /\ IF now - cstart[s] > GrabTimeout
                      THEN /\ mpc' = [mpc EXCEPT ![s] = "ret"]
                           /\ mret' = [mret EXCEPT ![s] = "None"]
                           /\ UNCHANGED waits
                      ELSE /\ GrabSleep(s)
                           /\ UNCHANGED <<mpc, mret>>
                   /\ UNCHANGED <<nframes, lframe>>
    /\ UNCHANGED <<cfgvars, orchvars, now, nexth, openh, ncalls, nrel, objvars, meth, rframe,
                   rts, cstart, try_times, try_interval, attempt, lcap, wake,
                   opens, peekvars, pubvars>>

\* self.__latest_frame = frame
GrabWriteFrame(s) ==
    /\ UNCHANGED drivervars
    /\ mpc[s] = "gf_wframe"
    /\ latest_frame' = [latest_frame EXCEPT ![s] = lframe[s]]
    /\ SlotWritten(s)
    /\ mpc' = [mpc EXCEPT ![s] = "gf_wts"]
    /\ UNCHANGED <<cfgvars, orchvars, envvars, cap, first_start_time, latest_timestamp,
                   frame_count, read_start_time, meth, mret, rframe, rts, lframe,
                   cstart, connvars, ppc, pframe, pts, ptsof, pubvars>>

\* self.__latest_timestamp = time.time()
GrabWriteTs(s) ==
    /\ UNCHANGED drivervars
    /\ mpc[s] = "gf_wts"
    /\ latest_timestamp' = [latest_timestamp EXCEPT ![s] = now]
    /\ PublishDone(s, lframe[s])
    /\ SlotWritten(s)
    /\ mpc' = [mpc EXCEPT ![s] = "gf_count"]
    /\ UNCHANGED <<cfgvars, orchvars, envvars, cap, first_start_time, latest_frame,
                   frame_count, read_start_time, meth, mret, rframe, rts, lframe,
                   cstart, connvars, ppc, pframe, pts, ptsof>>

\* self.frame_count += 1
NotCounted(n) == n
Counted(n) == n + 1

\* self.frame_count += 1; mark read_start_time on the second frame;
\* return frame, self.__latest_timestamp
GrabCount(s) ==
    /\ UNCHANGED drivervars
    /\ mpc[s] = "gf_count"
    /\ frame_count' = [frame_count EXCEPT ![s] = Counted(@)]
    /\ read_start_time' =
          [read_start_time EXCEPT ![s] =
              IF frame_count[s] + 1 = 2 /\ @ = None
              THEN latest_timestamp[s] ELSE @]
    /\ mpc' = [mpc EXCEPT ![s] = "ret"]
    /\ mret' = [mret EXCEPT ![s] = "pair"]
    /\ rframe' = [rframe EXCEPT ![s] = lframe[s]]
    /\ rts' = [rts EXCEPT ![s] = latest_timestamp[s]]
    /\ UNCHANGED <<cfgvars, orchvars, envvars, cap, first_start_time, latest_frame,
                   latest_timestamp, meth, lframe, cstart, connvars, peekvars,
                   pubvars>>

\* ---------------------------------------------- FFmpegSingleCam.get_frame
\* if self.__latest_frame is not None and self.__latest_timestamp is not None
PeekCheck(s) ==
    /\ ppc[s] = "idle"
    /\ pdirty' = [pdirty EXCEPT ![s] = Publishing(s)]
    /\ IF latest_frame[s] # None /\ latest_timestamp[s] # None
       THEN ppc' = [ppc EXCEPT ![s] = "rf"]
       ELSE ppc' = [ppc EXCEPT ![s] = "none"]
    /\ UNCHANGED <<pframe, pts, ptsof>>

\* return self.__latest_frame, ...
PeekReadFrame(s) ==
    /\ ppc[s] = "rf"
    /\ pframe' = [pframe EXCEPT ![s] = latest_frame[s]]
    /\ ppc' = [ppc EXCEPT ![s] = "rt"]
    /\ UNCHANGED <<pts, ptsof, pdirty>>

\* ... self.__latest_timestamp
PeekReadTs(s) ==
    /\ ppc[s] = "rt"
    /\ pts' = [pts EXCEPT ![s] = latest_timestamp[s]]
    /\ ptsof' = [ptsof EXCEPT ![s] = lastpub[s]]
    /\ ppc' = [ppc EXCEPT ![s] = "pair"]
    /\ UNCHANGED <<pframe, pdirty>>

\* The caller of get_frame takes what it returned.
PeekReturn(s) ==
    /\ ppc[s] \in {"none", "pair"}
    /\ ppc' = [ppc EXCEPT ![s] = "idle"]
    /\ pframe' = [pframe EXCEPT ![s] = None]
    /\ pts' = [pts EXCEPT ![s] = None]
    /\ ptsof' = [ptsof EXCEPT ![s] = None]
    /\ pdirty' = [pdirty EXCEPT ![s] = FALSE]

\* ================================================================
\* GStreamerSingleCam (gstreamer.py)
\* ================================================================
\* self.latest_frame = (frame, now): one store of one tuple.
GstStoreIfEmpty(s) ==
    /\ latest_frame' = [latest_frame EXCEPT
                            ![s] = IF @ = None THEN tframe[s] ELSE @]
    /\ latest_timestamp' = [latest_timestamp EXCEPT
                            ![s] = IF latest_frame[s] = None THEN tts[s] ELSE @]
GstStore(s) ==
    /\ latest_frame' = [latest_frame EXCEPT ![s] = tframe[s]]
    /\ latest_timestamp' = [latest_timestamp EXCEPT ![s] = tts[s]]

\* connect_cam(): the pipeline is built and set to PLAYING (True, and the
\* streaming thread starts to deliver samples), or one of the two fails (False).
GstConnect(s) ==
    /\ cls[s] = "GStreamerSingleCam"
    /\ mpc[s] = "idle"
    /\ tpc[s] = "off"
    /\ meth' = [meth EXCEPT ![s] = "connect"]
    /\ mpc' = [mpc EXCEPT ![s] = "ret"]
    /\ \E ok \in BOOLEAN :
        /\ mret' = [mret EXCEPT ![s] = IF ok THEN "True" ELSE "False"]
        /\ tpc' = [tpc EXCEPT ![s] = IF ok THEN "g_wait" ELSE "off"]

\* __on_new_sample, first half: a sample is pulled and mapped;
\* now = time.time(); first_frame_time is set once; self.frame_count += 1
GstSample(s) ==
    /\ tpc[s] = "g_wait"
    /\ Followed(s)
    /\ backend[s] # "dead"
    /\ nframes[Cam(s)] < FrameBound
    /\ nframes' = [nframes EXCEPT ![Cam(s)] = @ + 1]
    /\ tframe' = [tframe EXCEPT ![s] = nframes[Cam(s)] + 1]
    /\ tts' = [tts EXCEPT ![s] = now]
    /\ first_start_time' = [first_start_time EXCEPT
                                ![s] = IF @ = None THEN now ELSE @]
    /\ frame_count' = [frame_count EXCEPT ![s] = @ + 1]
    /\ tpc' = [tpc EXCEPT ![s] = "g_pub"]
    /\ UNCHANGED <<cfgvars, orchvars, now, nexth, openh, ncalls, nrel, cap, latest_frame,
                   latest_timestamp, read_start_time, methvars, peekvars,
                   pubvars, lock, stopped, taken, dispvars, mainvars, workvars>>

\* __on_new_sample, second half: self.latest_frame = (frame, now)
GstPublish(s) ==
    /\ tpc[s] = "g_pub"
    /\ GstStore(s)
    /\ PublishDone(s, tframe[s])
    /\ SlotWritten(s)
    /\ taken' = [taken EXCEPT ![s] = FALSE]
    /\ tframe' = [tframe EXCEPT ![s] = None]
    /\ tts' = [tts EXCEPT ![s] = None]
    /\ tpc' = [tpc EXCEPT ![s] = "g_wait"]
    /\ UNCHANGED <<cfgvars, orchvars, envvars, cap, first_start_time, frame_count,
                   read_start_time, methvars, ppc, pframe, pts, ptsof,
                   lock, stopped, dispvars, mainvars, workvars>>

\* grab_frame: one pass of `while self.latest_frame is None` (the GLib
\* iteration and the timeout check), or, the slot being filled,
\* frame_data = self.latest_frame
GstGrabRead(s) ==
    /\ mpc[s] = "gg_loop"
    /\ IF latest_frame[s] = None
       THEN /\ IF now - cstart[s] > GrabTimeout
               THEN /\ mpc' = [mpc EXCEPT ![s] = "ret"]
                    /\ mret' = [mret EXCEPT ![s] = "None"]
               ELSE UNCHANGED <<mpc, mret>>
            /\ UNCHANGED <<rframe, rts, taken>>
       ELSE /\ rframe' = [rframe EXCEPT ![s] = latest_frame[s]]
            /\ rts' = [rts EXCEPT ![s] = latest_timestamp[s]]
            /\ taken' = [taken EXCEPT ![s] = TRUE]
            /\ mpc' = [mpc EXCEPT ![s] = "gg_clear"]
            /\ UNCHANGED mret
    /\ UNCHANGED <<cfgvars, orchvars, envvars, objvars, meth, lframe, cstart, connvars,
                   peekvars, pubvars, lock, stopped, tpc, tframe, tts,
                   dispvars, mainvars, workvars>>

\* self.latest_frame = None; return frame_data
GstGrabClear(s) ==
    /\ mpc[s] = "gg_clear"
    /\ latest_frame' = [latest_frame EXCEPT ![s] = None]
    /\ latest_timestamp' = [latest_timestamp EXCEPT ![s] = None]
    /\ taken' = [taken EXCEPT ![s] = TRUE]
    /\ SlotWritten(s)
    /\ mpc' = [mpc EXCEPT ![s] = "ret"]
    /\ mret' = [mret EXCEPT ![s] = "pair"]
    /\ UNCHANGED <<cfgvars, orchvars, envvars, cap, first_start_time, frame_count,
                   read_start_time, meth, rframe, rts, lframe, cstart,
                   connvars, ppc, pframe, pts, ptsof, pubvars, lock, stopped,
                   tpc, tframe, tts, dispvars, mainvars, workvars>>

\* grab_frame statement by statement, as the appsink callback of the
\* streaming thread interleaves with it (GstGrabRead is the two steps below
\* taken as one).  `while self.latest_frame is None:` and, the slot being
\* filled, frame_data = self.latest_frame
GstGrabTest(s) ==
    /\ mpc[s] = "gg_loop"
    /\ IF latest_frame[s] = None
       THEN /\ mpc' = [mpc EXCEPT ![s] = "gg_time"]
            /\ UNCHANGED <<rframe, rts, taken>>
       ELSE /\ rframe' = [rframe EXCEPT ![s] = latest_frame[s]]
            /\ rts' = [rts EXCEPT ![s] = latest_timestamp[s]]
            /\ taken' = [taken EXCEPT ![s] = TRUE]
            /\ mpc' = [mpc EXCEPT ![s] = "gg_clear"]
    /\ UNCHANGED <<cfgvars, orchvars, envvars, objvars, meth, mret, lframe, cstart,
                   connvars, peekvars, pubvars, lock, stopped, tpc, tframe, tts,
                   dispvars, mainvars, workvars>>

\* GLib.MainContext.default().iteration(False);
\* if time.time() - start_time > timeout: return None
GstGrabTimeout(s) ==
    /\ mpc[s] = "gg_time"
    /\ IF now - cstart[s] > GrabTimeout
       THEN /\ mpc' = [mpc EXCEPT ![s] = "ret"]
            /\ mret' = [mret EXCEPT ![s] = "None"]
       ELSE /\ mpc' = [mpc EXCEPT ![s] = "gg_loop"]
            /\ UNCHANGED mret
    /\ UNCHANGED <<cfgvars, orchvars, envvars, objvars, meth, rframe, rts, lframe,
                   cstart, connvars, peekvars, pubvars, lock, stopped, tpc,
                   tframe, gstvars, dispvars, mainvars, workvars>>

\* The entry of grab_frame(timeout=1.0): start_time = time.time()
EnterGstGrab(s) ==
    /\ meth' = [meth EXCEPT ![s] = "grab"]
    /\ mpc' = [mpc EXCEPT ![s] = "gg_loop"]
    /\ cstart' = [cstart EXCEPT ![s] = now]
    /\ UNCHANGED <<mret, rframe, rts, lframe, connvars>>

\* get_frame: return self.latest_frame
GstPeek(s) ==
    /\ ppc[s] = "idle"
    /\ pframe' = [pframe EXCEPT ![s] = latest_frame[s]]
    /\ pts' = [pts EXCEPT ![s] = latest_timestamp[s]]
    /\ ptsof' = [ptsof EXCEPT ![s] = lastpub[s]]
    /\ pdirty' = [pdirty EXCEPT ![s] = taken[s]]
    /\ ppc' = [ppc EXCEPT ![s] = IF latest_frame[s] = None THEN "none" ELSE "pair"]

\* ------------------------------------------------------------------ release
\* self.cap.release() with the attribute left as it is.
ReleaseKeepsCap(s) ==
    /\ openh' = openh \ {cap[s]}
    /\ UNCHANGED cap

\* if self.cap is not None: self.cap.release(); self.cap = None
Release(s) ==
    /\ openh' = openh \ {cap[s]}
    /\ cap' = [cap EXCEPT ![s] = None]

\* ------------------------------------------------------- method call frames
\* The entry of connect_cam(try_times, try_interval) on object s.
EnterConnect(s, n, x) ==
    /\ meth' = [meth EXCEPT ![s] = "connect"]
    /\ mpc' = [mpc EXCEPT ![s] = "cc_loop"]
    /\ try_times' = [try_times EXCEPT ![s] = n]
    /\ try_interval' = [try_interval EXCEPT ![s] = x]
    /\ attempt' = [attempt EXCEPT ![s] = 0]
    /\ opens' = [opens EXCEPT ![s] = 0]
    /\ waits' = [waits EXCEPT ![s] = 0]
    /\ cstart' = [cstart EXCEPT ![s] = now]
    /\ lcap' = [lcap EXCEPT ![s] = None]
    /\ lframe' = [lframe EXCEPT ![s] = None]
    /\ UNCHANGED <<mret, rframe, rts, wake>>

\* The entry of grab_frame(timeout=1.0) on object s: start_time = time.time()
EnterGrab(s) ==
    /\ meth' = [meth EXCEPT ![s] = "grab"]
    /\ mpc' = [mpc EXCEPT ![s] = "gf_loop"]
    /\ cstart' = [cstart EXCEPT ![s] = now]
    /\ lframe' = [lframe EXCEPT ![s] = None]
    /\ UNCHANGED <<mret, rframe, rts, connvars>>

\* The method on object s has returned and its frame is gone.
LeaveMethod(s) ==
    /\ meth' = [meth EXCEPT ![s] = "none"]
    /\ mpc' = [mpc EXCEPT ![s] = "idle"]
    /\ mret' = [mret EXCEPT ![s] = "None"]
    /\ rframe' = [rframe EXCEPT ![s] = None]
    /\ rts' = [rts EXCEPT ![s] = None]
    /\ try_times' = [try_times EXCEPT ![s] = 0]
    /\ try_interval' = [try_interval EXCEPT ![s] = 0]
    /\ attempt' = [attempt EXCEPT ![s] = 0]
    /\ opens' = [opens EXCEPT ![s] = 0]
    /\ waits' = [waits EXCEPT ![s] = 0]
    /\ cstart' = [cstart EXCEPT ![s] = 0]
    /\ wake' = [wake EXCEPT ![s] = 0]
    /\ lcap' = [lcap EXCEPT ![s] = None]
    /\ lframe' = [lframe EXCEPT ![s] = None]

\* ------------------------------------------------------- the API harness
\* A client calls the methods of one connection object, one call at a time;
\* a second thread calls get_frame on it at any moment.
CallConnect(s) ==
    /\ UNCHANGED drivervars
    /\ prog \in {"conn", "cam"}
    /\ cls[s] # "GStreamerSingleCam"
    /\ mpc[s] = "idle"
    /\ ncalls < (IF prog = "cam" THEN SlotConnects ELSE MaxConnects)
    /\ ncalls' = ncalls + 1
    /\ nrel' = 0
    /\ EnterConnect(s, hN, hX)
    /\ UNCHANGED <<cfgvars, orchvars, now, nexth, openh, nframes, objvars, peekvars,
                   pubvars>>

CallGrab(s) ==
    /\ UNCHANGED drivervars
    /\ prog = "cam"
    /\ cls[s] = "FFmpegSingleCam"
    /\ mpc[s] = "idle"
    /\ EnterGrab(s)
    /\ UNCHANGED <<cfgvars, orchvars, envvars, objvars, peekvars, pubvars>>

CallRelease(s) ==
    /\ UNCHANGED drivervars
    /\ prog \in {"conn", "cam"}
    /\ cls[s] # "GStreamerSingleCam"
    /\ mpc[s] = "idle"
    /\ nrel < MaxReleases
    /\ nrel' = nrel + 1
    /\ Release(s)
    /\ meth' = [meth EXCEPT ![s] = "release"]
    /\ mpc' = [mpc EXCEPT ![s] = "ret"]
    /\ mret' = [mret EXCEPT ![s] = "None"]
    /\ UNCHANGED <<cfgvars, orchvars, now, nexth, nframes, ncalls, first_start_time,
                   latest_frame, latest_timestamp, frame_count, read_start_time,
                   rframe, rts, lframe, cstart, connvars, peekvars, pubvars>>

\* The client takes the result of the call.
Return(s) ==
    /\ UNCHANGED drivervars
    /\ prog \in {"conn", "cam"}
    /\ mpc[s] = "ret"
    /\ LeaveMethod(s)
    /\ UNCHANGED <<cfgvars, orchvars, envvars, objvars, peekvars, pubvars>>

\* A step of the thread that calls get_frame.
GetFrame(s) ==
    /\ UNCHANGED drivervars
    /\ prog = "cam"
    /\ \/ cls[s] = "FFmpegSingleCam" /\ PeekCheck(s)
       \/ cls[s] = "FFmpegSingleCam" /\ PeekReadFrame(s)
       \/ cls[s] = "FFmpegSingleCam" /\ PeekReadTs(s)
       \/ cls[s] = "GStreamerSingleCam" /\ GstPeek(s)
       \/ PeekReturn(s)
    /\ UNCHANGED <<cfgvars, orchvars, envvars, objvars, methvars, pubvars>>

\* The client calls connect_cam() of a GStreamerSingleCam not yet connected.
CallGstConnect(s) ==
    /\ prog = "cam"
    /\ ncalls < SlotConnects
    /\ ncalls' = ncalls + 1
    /\ UNCHANGED nrel
    /\ GstConnect(s)
    /\ UNCHANGED <<cfgvars, orchvars, now, nexth, openh, nframes, objvars, rframe, rts,
                   lframe, cstart, connvars, peekvars, pubvars, lock, stopped,
                   tframe, gstvars, dispvars, mainvars, workvars>>

\* The client calls grab_frame(timeout=1.0) of a GStreamerSingleCam.
CallGstGrab(s) ==
    /\ UNCHANGED drivervars
    /\ prog = "cam"
    /\ cls[s] = "GStreamerSingleCam"
    /\ mpc[s] = "idle"
    /\ EnterGstGrab(s)
    /\ UNCHANGED <<cfgvars, orchvars, envvars, objvars, peekvars, pubvars>>

\* ================================================================
\* The threaded report program (run_ffmpeg_oop_multi_thread_report.py)
\* ================================================================
\* main(): connect_server(try_times=2, try_interval=2)
ThrTryTimes == 2
ThrTryInterval == 2
\* release(): self.thread.join(timeout=1.0)
JoinTimeout == 1

\* `with self.lock` can be entered: no thread is inside it.
LockAlwaysFree(s) == TRUE
LockFree(s) == lock[s] = "free"

\* connect_server, success branch: with self.lock: self.latest_frame = frame
ThrConnectPublishFrame(s) ==
    /\ UNCHANGED <<gstvars, workvars>>
    /\ mpc[s] = "cc_ok"
    /\ cls[s] = "RTSPStreamerThreaded"
    /\ LockFree(s)
    /\ lock' = [lock EXCEPT ![s] = "main"]
    /\ latest_frame' = [latest_frame EXCEPT ![s] = lframe[s]]
    /\ mpc' = [mpc EXCEPT ![s] = "tc_wts"]
    /\ UNCHANGED <<cfgvars, orchvars, envvars, cap, first_start_time, latest_timestamp,
                   frame_count, read_start_time, meth, mret, rframe, rts, lframe,
                   cstart, connvars, peekvars, pubvars, stopped, tpc, tframe,
                   dispvars, mainvars>>

\* self.latest_timestamp = time.time(), and the lock is left
ThrConnectPublishTs(s) ==
    /\ UNCHANGED <<gstvars, workvars>>
    /\ mpc[s] = "tc_wts"
    /\ latest_timestamp' = [latest_timestamp EXCEPT ![s] = now]
    /\ PublishDone(s, lframe[s])
    /\ lock' = [lock EXCEPT ![s] = "free"]
    /\ mpc' = [mpc EXCEPT ![s] = "tc_start"]
    /\ UNCHANGED <<cfgvars, orchvars, envvars, cap, first_start_time, latest_frame,
                   frame_count, read_start_time, meth, mret, rframe, rts, lframe,
                   cstart, connvars, peekvars, stopped, tpc, tframe,
                   dispvars, mainvars>>

\* self.stopped = False; self.thread = Thread(...); self.thread.start();
\* return True
ThrConnectStart(s) ==
    /\ UNCHANGED <<gstvars, workvars>>
    /\ mpc[s] = "tc_start"
    /\ stopped' = [stopped EXCEPT ![s] = FALSE]
    /\ tpc' = [tpc EXCEPT ![s] = "loop"]
    /\ mpc' = [mpc EXCEPT ![s] = "ret"]
    /\ mret' = [mret EXCEPT ![s] = "True"]
    /\ UNCHANGED <<cfgvars, orchvars, envvars, objvars, meth, rframe, rts, lframe,
                   cstart, connvars, peekvars, pubvars, lock, tframe,
                   dispvars, mainvars>>

\* ------------------------------------------- RTSPStreamer._capture_loop
\* while not self.stopped
CapLoopCheck(s) ==
    /\ UNCHANGED <<gstvars, workvars>>
    /\ tpc[s] = "loop"
    /\ tpc' = [tpc EXCEPT ![s] = IF stopped[s] THEN "done" ELSE "read"]
    /\ UNCHANGED <<cfgvars, orchvars, envvars, objvars, methvars, peekvars, pubvars,
                   lock, stopped, tframe, dispvars, mainvars>>

\* ret, frame = self.cap.read(); on (False, None) the loop goes round at once;
\* once release has set self.cap = None the attribute access raises.
CapLoopRead(s) ==
    /\ UNCHANGED <<gstvars, workvars>>
    /\ tpc[s] = "read"
    /\ IF cap[s] = None
       THEN /\ tpc' = [tpc EXCEPT ![s] = "crashed"]
            /\ UNCHANGED <<nframes, tframe>>
       ELSE \E o \in ReadOutcomes(s) :
              IF o = "ok"
              THEN /\ nframes' = [nframes EXCEPT ![Cam(s)] = @ + 1]
                   /\ tframe' = [tframe EXCEPT ![s] = nframes[Cam(s)] + 1]
                   /\ tpc' = [tpc EXCEPT ![s] = "wf"]
              ELSE /\ tpc' = [tpc EXCEPT ![s] = "loop"]
                   /\ UNCHANGED <<nframes, tframe>>
    /\ UNCHANGED <<cfgvars, orchvars, now, nexth, openh, ncalls, nrel, objvars, methvars,
                   peekvars, pubvars, lock, stopped, dispvars, mainvars>>

\* with self.lock: self.latest_frame = frame
CapPublishFrame(s) ==
    /\ UNCHANGED <<gstvars, workvars>>
    /\ tpc[s] = "wf"
    /\ LockFree(s)
    /\ lock' = [lock EXCEPT ![s] = "cap"]
    /\ latest_frame' = [latest_frame EXCEPT ![s] = tframe[s]]
    /\ tpc' = [tpc EXCEPT ![s] = "wts"]
    /\ UNCHANGED <<cfgvars, orchvars, envvars, cap, first_start_time, latest_timestamp,
                   frame_count, read_start_time, methvars, peekvars, pubvars,
                   stopped, tframe, dispvars, mainvars>>

\* self.latest_timestamp = time.time(), and the lock is left
CapPublishTs(s) ==
    /\ UNCHANGED <<gstvars, workvars>>
    /\ tpc[s] = "wts"
    /\ latest_timestamp' = [latest_timestamp EXCEPT ![s] = now]
    /\ PublishDone(s, tframe[s])
    /\ lock' = [lock EXCEPT ![s] = "free"]
    /\ tpc' = [tpc EXCEPT ![s] = "cnt"]
    /\ UNCHANGED <<cfgvars, orchvars, envvars, cap, first_start_time, latest_frame,
                   frame_count, read_start_time, methvars, peekvars,
                   stopped, tframe, dispvars, mainvars>>

\* self.frame_count += 1
CapCount(s) ==
    /\ UNCHANGED <<gstvars, workvars>>
    /\ tpc[s] = "cnt"
    /\ frame_count' = [frame_count EXCEPT ![s] = @ + 1]
    /\ tframe' = [tframe EXCEPT ![s] = None]
    /\ tpc' = [tpc EXCEPT ![s] = "loop"]
    /\ UNCHANGED <<cfgvars, orchvars, envvars, cap, first_start_time, latest_frame,
                   latest_timestamp, read_start_time, methvars, peekvars,
                   pubvars, lock, stopped, dispvars, mainvars>>

\* ------------------------------------------------ RTSPStreamer.release
\* The capture thread of s has ended.
ThreadEnded(s) == tpc[s] \in {"off", "done", "crashed"}

\* self.stopped = True; then self.thread.join(timeout=1.0) begins
ThrReleaseStop ==
    /\ UNCHANGED <<gstvars, workvars>>
    /\ mainpc = "t_final"
    /\ mpc[midx] = "idle"
    /\ stopped' = [stopped EXCEPT ![midx] = TRUE]
    /\ meth' = [meth EXCEPT ![midx] = "release"]
    /\ mpc' = [mpc EXCEPT ![midx] = "rl_join"]
    /\ wake' = [wake EXCEPT ![midx] = now + JoinTimeout]
    /\ mainpc' = "t_relwait"
    /\ UNCHANGED <<cfgvars, orchvars, envvars, objvars, mret, rframe, rts, lframe, cstart,
                   try_times, try_interval, attempt, lcap, opens, waits,
                   peekvars, pubvars, lock, tpc, tframe, dispvars, midx,
                   active, kframe, kts, ktsof, overall_start, aborted>>

\* join returns (the thread has ended, or the timeout has passed);
\* if self.cap is not None: self.cap.release(); self.cap = None
ThrReleaseJoin(s) ==
    /\ mpc[s] = "rl_join"
    /\ ThreadEnded(s) \/ now >= wake[s]
    /\ Release(s)
    /\ mpc' = [mpc EXCEPT ![s] = "ret"]
    /\ mret' = [mret EXCEPT ![s] = "None"]
    /\ UNCHANGED <<cfgvars, orchvars, now, nexth, nframes, ncalls, nrel, first_start_time,
                   latest_frame, latest_timestamp, frame_count, read_start_time,
                   meth, rframe, rts, lframe, cstart, connvars, peekvars,
                   pubvars, drivervars>>

\* A client calls release() on a streamer main() has not connected yet, or
\* once more on one main() has cleaned up:
\* self.stopped = True; then self.thread.join(timeout=1.0) begins
ThrCallRelease(s) ==
    /\ UNCHANGED <<gstvars, workvars>>
    /\ prog = "thr"
    /\ mainpc \in {"t_conn", "t_done"}
    /\ s \in ThrObjs
    /\ mpc[s] = "idle"
    /\ nrel < MaxReleases
    /\ nrel' = nrel + 1
    /\ stopped' = [stopped EXCEPT ![s] = TRUE]
    /\ meth' = [meth EXCEPT ![s] = "release"]
    /\ mpc' = [mpc EXCEPT ![s] = "rl_join"]
    /\ wake' = [wake EXCEPT ![s] = now + JoinTimeout]
    /\ UNCHANGED <<cfgvars, orchvars, now, nexth, openh, nframes, ncalls,
                   objvars, mret, rframe, rts, lframe, cstart, try_times,
                   try_interval, attempt, lcap, opens, waits, peekvars,
                   pubvars, lock, tpc, tframe, dispvars, mainvars>>

\* That call returns to the client.
ThrReturn(s) ==
    /\ UNCHANGED <<gstvars, workvars>>
    /\ prog = "thr"
    /\ mainpc \in {"t_conn", "t_done"}
    /\ mpc[s] = "ret"
    /\ LeaveMethod(s)
    /\ UNCHANGED <<cfgvars, orchvars, envvars, objvars, peekvars, pubvars,
                   thrvars, dispvars, mainvars>>

\* ------------------------------------------------------------ main()
\* The streamer after s in the list the main thread iterates, or None.
NextIn(S, s) == IF \E x \in S : x > s
                THEN CHOOSE x \in S : x > s /\ \A y \in S : y > s => x <= y
                ELSE None

\* for streamer in all_streamers: streamer.connect_server(2, 2)
ThrMainConnect ==
    /\ UNCHANGED <<gstvars, workvars>>
    /\ mainpc = "t_conn"
    /\ mpc[midx] = "idle"
    /\ EnterConnect(midx, ThrTryTimes, ThrTryInterval)
    /\ mainpc' = "t_connwait"
    /\ nrel' = 0
    /\ UNCHANGED <<cfgvars, orchvars, now, nexth, openh, nframes, ncalls,
                   objvars, peekvars, pubvars, thrvars,
                   dispvars, midx, active, kframe, kts, ktsof, overall_start,
                   aborted>>

\* if streamer.connect_server(...): active_streamers.append(streamer)
ThrMainConnected ==
    /\ UNCHANGED <<gstvars, workvars>>
    /\ mainpc = "t_connwait"
    /\ mpc[midx] = "ret"
    /\ active' = IF mret[midx] = "True" THEN active \cup {midx} ELSE active
    /\ LeaveMethod(midx)
    /\ IF NextIn(ThrObjs, midx) = None
       THEN /\ mainpc' = "t_start"
            /\ midx' = None
       ELSE /\ mainpc' = "t_conn"
            /\ midx' = NextIn(ThrObjs, midx)
    /\ UNCHANGED <<cfgvars, orchvars, envvars, objvars, peekvars, pubvars, thrvars,
                   dispvars, kframe, kts, ktsof, overall_start, aborted>>

\* process_streamers: overall_start = time.time()
ThrProcessStart ==
    /\ UNCHANGED <<gstvars, workvars>>
    /\ mainpc = "t_start"
    /\ overall_start' = now
    /\ mainpc' = "t_while"
    /\ UNCHANGED <<cfgvars, orchvars, envvars, objvars, methvars, peekvars, pubvars,
                   thrvars, dispvars, midx, active, kframe, kts, ktsof, aborted>>

\* while time.time() - overall_start < duration: for ... in active_streamers[:]
ThrWhile ==
    /\ UNCHANGED <<gstvars, workvars>>
    /\ mainpc = "t_while"
    /\ IF now - overall_start < RunDuration
       THEN IF active = {}
            THEN mainpc' = "t_key" /\ midx' = None
            ELSE mainpc' = "t_for" /\ midx' = NextIn(active, 0)
       ELSE mainpc' = "t_final" /\ midx' = NextIn(ThrObjs, 0)
    /\ UNCHANGED <<cfgvars, orchvars, envvars, objvars, methvars, peekvars, pubvars,
                   thrvars, dispvars, active, kframe, kts, ktsof, overall_start,
                   aborted>>

\* with streamer.lock: frame = streamer.latest_frame
ThrLockRead ==
    /\ UNCHANGED <<gstvars, workvars>>
    /\ mainpc = "t_for"
    /\ LockFree(midx)
    /\ lock' = [lock EXCEPT ![midx] = "main"]
    /\ kframe' = latest_frame[midx]
    /\ mainpc' = "t_rts"
    /\ UNCHANGED <<cfgvars, orchvars, envvars, objvars, methvars, peekvars, pubvars,
                   stopped, tpc, tframe, dispvars, midx, active, kts, ktsof,
                   overall_start, aborted>>

\* The end of the consumer's `with streamer.lock:` block (the lock is
\* released); the variant in which the consumer goes on holding it.
LockKept(s) == UNCHANGED lock
LeaveLock(s) == lock' = [lock EXCEPT ![s] = "free"]

\* capture_time = streamer.latest_timestamp, and the lock is left
ThrReadTs ==
    /\ UNCHANGED <<gstvars, workvars>>
    /\ mainpc = "t_rts"
    /\ kts' = latest_timestamp[midx]
    /\ ktsof' = lastpub[midx]
    /\ LeaveLock(midx)
    /\ mainpc' = "t_proc"
    /\ UNCHANGED <<cfgvars, orchvars, envvars, objvars, methvars, peekvars, pubvars,
                   stopped, tpc, tframe, dispvars, midx, active, kframe,
                   overall_start, aborted>>

\* if streamer.last_displayed_timestamp != capture_time
ThrIsNew(last, ts) == last # ts

\* This pass goes on to cv2.putText and cv2.imshow whatever the test on the
\* timestamp said.
ThrShown(new) == TRUE

\* The rest of the loop body for one streamer: `continue` on no frame;
\* otherwise the new-frame test and its counting, the overlay and imshow.
ThrProcess ==
    /\ UNCHANGED <<gstvars, workvars>>
    /\ mainpc = "t_proc"
    /\ IF kframe = None
       THEN /\ lastpass' = [lastpass EXCEPT ![midx] = "noframe"]
            /\ UNCHANGED <<last_displayed_timestamp, display_start_time,
                           display_frame_count, prevcounted>>
       ELSE LET new == ThrIsNew(last_displayed_timestamp[midx], kts)
            IN /\ IF new
                  THEN /\ last_displayed_timestamp' =
                            [last_displayed_timestamp EXCEPT ![midx] = kts]
                       /\ prevcounted' =
                            [prevcounted EXCEPT
                                ![midx] = last_displayed_timestamp[midx]]
                       /\ display_start_time' =
                            [display_start_time EXCEPT
                                ![midx] = IF @ = None THEN now ELSE @]
                       /\ display_frame_count' =
                            [display_frame_count EXCEPT ![midx] = @ + 1]
                  ELSE UNCHANGED <<last_displayed_timestamp, prevcounted,
                                   display_start_time, display_frame_count>>
               /\ lastpass' = [lastpass EXCEPT ![midx] =
                    IF new THEN (IF ThrShown(new) THEN "new_shown" ELSE "new_skipped")
                    ELSE (IF ThrShown(new) THEN "dup_shown" ELSE "dup_skipped")]
    /\ kframe' = None
    /\ kts' = None
    /\ ktsof' = None
    /\ IF NextIn(active, midx) = None
       THEN mainpc' = "t_key" /\ midx' = None
       ELSE mainpc' = "t_for" /\ midx' = NextIn(active, midx)
    /\ UNCHANGED <<cfgvars, orchvars, envvars, objvars, methvars, peekvars, pubvars,
                   thrvars, active, overall_start, aborted>>

\* if cv2.waitKey(1) & 0xFF == ord('q'): break
ThrKey ==
    /\ UNCHANGED <<gstvars, workvars>>
    /\ mainpc = "t_key"
    /\ \/ /\ aborted' = TRUE
          /\ mainpc' = "t_final"
          /\ midx' = NextIn(ThrObjs, 0)
       \/ /\ mainpc' = "t_while"
          /\ UNCHANGED <<aborted, midx>>
    /\ UNCHANGED <<cfgvars, orchvars, envvars, objvars, methvars, peekvars, pubvars,
                   thrvars, dispvars, active, kframe, kts, ktsof, overall_start>>

\* finally: for streamer in all_streamers: streamer.release()
ThrReleased ==
    /\ UNCHANGED <<gstvars, workvars>>
    /\ mainpc = "t_relwait"
    /\ mpc[midx] = "ret"
    /\ LeaveMethod(midx)
    /\ IF NextIn(ThrObjs, midx) = None
       THEN mainpc' = "t_done" /\ midx' = None
       ELSE mainpc' = "t_final" /\ midx' = NextIn(ThrObjs, midx)
    /\ UNCHANGED <<cfgvars, orchvars, envvars, objvars, peekvars, pubvars, thrvars,
                   dispvars, active, kframe, kts, ktsof, overall_start, aborted>>

\* ================================================================
\* MultiCamVisualizer (multicam_visualizer.py)
\* ================================================================
\* FFmpegSingleCam.connect_cam(try_times=5, try_interval=2.0): the defaults
\* connect_cameras and __process_streamer call it with.
VisTryTimes == 5
VisTryInterval == 2

\* The streamers of the list q, the first of them, and the one after s.
Members(q) == {q[i] : i \in DOMAIN q}
FirstOf(q) == IF q = <<>> THEN None ELSE q[1]
\* A for loop over q that is left after its first element.
AfterStop(q, s) == None
\* for streamer in q: the element the loop takes after s.
After(q, s) == LET i == CHOOSE j \in DOMAIN q : q[j] = s
               IN IF i < Len(q) THEN q[i + 1] ELSE None

\* The object the worker of streamer s grabs from: the streamer itself in a
\* thread, the streamer the child process has built in multiproc mode.
WorkerObj(s) == IF run_mode = "multiproc" THEN Child(s) ELSE s

\* __display_frame: `if last_displayed_timestamps.get(window_name) ==
\* sample_time: return` lets a frame through when this is false.
DisplayIsNewAlways(last, ts) == TRUE
DisplayIsNew(last, ts) == last # ts

\* __display_frame(window_name, frame, sample_time)
DisplayFrame(s, ts) ==
    IF DisplayIsNew(last_displayed_timestamp[s], ts)
    THEN /\ last_displayed_timestamp' =
                [last_displayed_timestamp EXCEPT ![s] = ts]
         /\ prevcounted' = [prevcounted EXCEPT ![s] = last_displayed_timestamp[s]]
         /\ display_frame_count' = [display_frame_count EXCEPT ![s] = @ + 1]
         /\ display_start_time' =
                [display_start_time EXCEPT
                    ![s] = IF display_frame_count[s] + 1 = 2 /\ @ = None
                           THEN now ELSE @]
         /\ lastpass' = [lastpass EXCEPT ![s] = "new_shown"]
    ELSE /\ lastpass' = [lastpass EXCEPT ![s] = "dup_skipped"]
         /\ UNCHANGED <<last_displayed_timestamp, prevcounted,
                        display_frame_count, display_start_time>>

\* The entry of streamer.grab_frame(timeout=1.0), whichever the class.
EnterAnyGrab(s) ==
    IF cls[s] = "GStreamerSingleCam" THEN EnterGstGrab(s) ELSE EnterGrab(s)

\* A test that takes every result of connect_cam as true.
TruthyAlways(r) == TRUE
\* if streamer.connect_cam():
Truthy(r) == r = "True"

\* connect_cameras: streamer = FFmpegSingleCam(...); streamer.connect_cam()
VisConnectFFmpeg ==
    /\ mainpc = "v_conn"
    /\ cls[midx] = "FFmpegSingleCam"
    /\ mpc[midx] = "idle"
    /\ EnterConnect(midx, VisTryTimes, VisTryInterval)
    /\ mainpc' = "v_connwait"
    /\ UNCHANGED <<cfgvars, orchvars, envvars, objvars, peekvars, pubvars,
                   thrvars, gstvars, dispvars, midx, active, kframe, kts,
                   ktsof, overall_start, aborted, workvars>>

\* connect_cameras: streamer = GStreamerSingleCam(...); streamer.connect_cam()
VisConnectGst ==
    /\ mainpc = "v_conn"
    /\ GstConnect(midx)
    /\ mainpc' = "v_connwait"
    /\ UNCHANGED <<cfgvars, orchvars, envvars, objvars, rframe, rts, lframe,
                   cstart, connvars, peekvars, pubvars, lock, stopped, tframe,
                   gstvars, dispvars, midx, active, kframe, kts, ktsof,
                   overall_start, aborted, workvars>>

\* if streamer.connect_cam(): self.__streamers.append(streamer) and the
\* display counters of its window are set to 0 / None / None;
\* else: print("Failed to connect:", url).  Then the next URL, or run().
VisConnected ==
    /\ mainpc = "v_connwait"
    /\ mpc[midx] = "ret"
    /\ IF Truthy(mret[midx])
       THEN streamers' = Append(streamers, midx) /\ UNCHANGED lost
       ELSE lost' = lost \cup {midx} /\ UNCHANGED streamers
    /\ LeaveMethod(midx)
    /\ IF NextIn(urls, midx) = None
       THEN mainpc' = "v_run" /\ midx' = None
       ELSE mainpc' = "v_conn" /\ midx' = NextIn(urls, midx)
    /\ UNCHANGED <<cfgvars, roundvars, run_begin, envvars, objvars, peekvars,
                   pubvars, thrvars, gstvars, dispvars, active, kframe, kts,
                   ktsof, overall_start, aborted, workvars>>

\* connect_cameras, `else: print("Unknown stream type:", stream_type);
\* continue`: nothing is recorded for the source; the variant that keeps it
\* as a streamer.
SkipAsStreamer(s) == streamers' = Append(streamers, s) /\ UNCHANGED lost
SkipSource(s) == UNCHANGED <<streamers, lost>>

\* connect_cameras with a stream_type that is neither "gstreamer" nor
\* "ffmpeg": the for loop goes on to the next URL, or connect_cameras ends.
VisConnectUnknown ==
    /\ mainpc = "v_conn"
    /\ cls[midx] \notin {"FFmpegSingleCam", "GStreamerSingleCam"}
    /\ SkipSource(midx)
    /\ IF NextIn(urls, midx) = None
       THEN mainpc' = "v_run" /\ midx' = None
       ELSE mainpc' = "v_conn" /\ midx' = NextIn(urls, midx)
    /\ UNCHANGED <<cfgvars, roundvars, run_begin, envvars, objvars, methvars,
                   peekvars, pubvars, thrvars, gstvars, dispvars, active,
                   kframe, kts, ktsof, overall_start, aborted, workvars>>

\* run(): start_time = time.time() of __run_sequential / __run_multithread
\* (which then starts one thread per streamer of the list);
\* __run_multiprocess starts one process per streamer of the list.
VisRun ==
    /\ mainpc = "v_run"
    /\ CASE run_mode = "seq" ->
              /\ overall_start' = now
              /\ mainpc' = "v_while"
              /\ UNCHANGED wpc
         [] run_mode = "multithread" ->
              /\ overall_start' = now
              /\ mainpc' = "mt_while"
              /\ wpc' = [s \in Sources |->
                            IF s \in Members(streamers) THEN "w_start" ELSE "off"]
         [] run_mode = "multiproc" ->
              /\ UNCHANGED overall_start
              /\ mainpc' = "join"
              /\ wpc' = [s \in Sources |->
                            IF s \in Members(streamers) THEN "p_start" ELSE "off"]
    /\ run_begin' = now
    /\ UNCHANGED <<cfgvars, roundvars, streamers, lost, envvars, objvars,
                   methvars, peekvars, pubvars, thrvars, gstvars, dispvars,
                   midx, active, kframe, kts, ktsof, aborted, wstart,
                   wcapture_time, wend, results_dict>>

\* __run_sequential: while time.time() - start_time < self.duration:
\*     for streamer in self.__streamers:
VisSeqWhile ==
    /\ mainpc = "v_while"
    /\ roundread' = {}
    /\ IF now - overall_start < duration
       THEN IF streamers = <<>>
            THEN mainpc' = "v_key" /\ midx' = None
            ELSE mainpc' = "v_grab" /\ midx' = FirstOf(streamers)
       ELSE mainpc' = "v_done" /\ midx' = None
    /\ UNCHANGED <<cfgvars, roundcopy, dropped, oldcap, listvars, envvars, objvars, methvars, peekvars,
                   pubvars, thrvars, gstvars, dispvars, active, kframe, kts,
                   ktsof, overall_start, aborted, workvars>>

\* frame_data = streamer.grab_frame(timeout=1.0)
VisSeqGrab ==
    /\ mainpc = "v_grab"
    /\ mpc[midx] = "idle"
    /\ EnterAnyGrab(midx)
    /\ roundread' = roundread \cup {midx}
    /\ mainpc' = "v_grabwait"
    /\ UNCHANGED <<cfgvars, roundcopy, dropped, oldcap, listvars, envvars, objvars, peekvars, pubvars,
                   thrvars, gstvars, dispvars, midx, active, kframe, kts,
                   ktsof, overall_start, aborted, workvars>>

\* The streamer the for loop of __run_sequential takes after the grab_frame
\* of s has returned: the next of the list, whatever the grab returned; the
\* variant in which a grab that returned None ends the round.
NextStreamerIfFrame(q, s) == IF mret[s] = "None" THEN None ELSE After(q, s)
NextStreamer(q, s) == After(q, s)

\* if self.__is_visualized and frame_data is not None:
\*     self.__display_frame(streamer.window_name, frame, ts)
\* and the for loop goes on to the next streamer of the list
VisSeqDisplay ==
    /\ mainpc = "v_grabwait"
    /\ mpc[midx] = "ret"
    /\ IF is_visualized /\ mret[midx] = "pair"
       THEN DisplayFrame(midx, rts[midx])
       ELSE UNCHANGED dispvars
    /\ LeaveMethod(midx)
    /\ IF NextStreamer(streamers, midx) = None
       THEN mainpc' = "v_key" /\ midx' = None
       ELSE mainpc' = "v_grab" /\ midx' = NextStreamer(streamers, midx)
    /\ UNCHANGED <<cfgvars, orchvars, envvars, objvars, peekvars, pubvars,
                   thrvars, gstvars, active, kframe, kts, ktsof, overall_start,
                   aborted, workvars>>

\* if self.__is_visualized and (cv2.waitKey(1) & 0xFF == ord('q')): break
VisSeqKey ==
    /\ mainpc = "v_key"
    /\ \/ /\ is_visualized
          /\ aborted' = TRUE
          /\ mainpc' = "v_done"
       \/ /\ mainpc' = "v_while"
          /\ UNCHANGED aborted
    /\ UNCHANGED <<cfgvars, orchvars, envvars, objvars, methvars, peekvars,
                   pubvars, thrvars, gstvars, dispvars, midx, active, kframe,
                   kts, ktsof, overall_start, workvars>>

\* __run_multithread: the main loop ends when the duration has passed or
\* on 'q'; until then it sleeps.
VisMtWhile ==
    /\ mainpc = "mt_while"
    /\ \/ /\ now - overall_start >= duration
          /\ UNCHANGED aborted
       \/ /\ now - overall_start < duration
          /\ aborted' = TRUE
    /\ mainpc' = "join"
    /\ UNCHANGED <<cfgvars, orchvars, envvars, objvars, methvars, peekvars,
                   pubvars, thrvars, gstvars, dispvars, midx, active, kframe,
                   kts, ktsof, overall_start, workvars>>

\* The worker (thread or process) of streamer s has ended.
WorkerEnded(s) == wpc[s] \in {"off", "w_done", "w_crashed"}

\* for thread in threads: thread.join() / for process in processes: process.join()
VisJoin ==
    /\ mainpc = "join"
    /\ \A s \in UrlObjs : WorkerEnded(s)
    /\ mainpc' = "v_done"
    /\ UNCHANGED <<cfgvars, orchvars, envvars, objvars, methvars, peekvars,
                   pubvars, thrvars, gstvars, dispvars, midx, active, kframe,
                   kts, ktsof, overall_start, aborted, workvars>>

\* __process_streamer: the child builds its own streamer and connects it
ChildConnectFFmpeg(s) ==
    /\ wpc[s] = "p_start"
    /\ cls[Child(s)] = "FFmpegSingleCam"
    /\ mpc[Child(s)] = "idle"
    /\ EnterConnect(Child(s), VisTryTimes, VisTryInterval)
    /\ wpc' = [wpc EXCEPT ![s] = "p_connwait"]
    /\ UNCHANGED <<cfgvars, orchvars, envvars, objvars, peekvars, pubvars,
                   thrvars, gstvars, dispvars, mainvars, wstart, wcapture_time,
                   wend, results_dict>>

ChildConnectGst(s) ==
    /\ wpc[s] = "p_start"
    /\ GstConnect(Child(s))
    /\ wpc' = [wpc EXCEPT ![s] = "p_connwait"]
    /\ UNCHANGED <<cfgvars, orchvars, envvars, objvars, rframe, rts, lframe,
                   cstart, connvars, peekvars, pubvars, lock, stopped, tframe,
                   gstvars, dispvars, mainvars, wstart, wcapture_time,
                   wend, results_dict>>

\* if not streamer.connect_cam(): print(...); return
ChildConnected(s) ==
    /\ wpc[s] = "p_connwait"
    /\ mpc[Child(s)] = "ret"
    /\ wpc' = [wpc EXCEPT
                ![s] = IF mret[Child(s)] = "True" THEN "w_start" ELSE "w_done"]
    /\ wend' = [wend EXCEPT
                ![s] = IF mret[Child(s)] = "True" THEN @ ELSE "unconnected"]
    /\ UNCHANGED results_dict
    /\ LeaveMethod(Child(s))
    /\ UNCHANGED <<cfgvars, orchvars, envvars, objvars, peekvars, pubvars,
                   thrvars, gstvars, dispvars, mainvars, wstart, wcapture_time>>

\* __capture_loop: start_time = time.time()
WorkerStart(s) ==
    /\ wpc[s] = "w_start"
    /\ wstart' = [wstart EXCEPT ![s] = now]
    /\ wpc' = [wpc EXCEPT ![s] = "w_while"]
    /\ UNCHANGED <<cfgvars, orchvars, envvars, objvars, methvars, peekvars,
                   pubvars, thrvars, gstvars, dispvars, mainvars,
                   wcapture_time, wend, results_dict>>

\* while time.time() - start_time < duration: capture_time = time.time();
\* frame_data = streamer.grab_frame(timeout=1.0)
WorkerWhile(s) ==
    /\ wpc[s] = "w_while"
    /\ IF now - wstart[s] < duration
       THEN /\ wcapture_time' = [wcapture_time EXCEPT ![s] = now]
            /\ mpc[WorkerObj(s)] = "idle"
            /\ EnterAnyGrab(WorkerObj(s))
            /\ wpc' = [wpc EXCEPT ![s] = "w_grabwait"]
            /\ UNCHANGED wend
       ELSE /\ wpc' = [wpc EXCEPT ![s] = "w_ret"]
            /\ wend' = [wend EXCEPT ![s] = "duration"]
            /\ UNCHANGED <<wcapture_time, methvars>>
    /\ UNCHANGED <<cfgvars, orchvars, envvars, objvars, peekvars, pubvars,
                   thrvars, gstvars, dispvars, mainvars, wstart, results_dict>>

\* The worker displays: __capture_loop(streamer, duration, display) is called
\* with display=False by __run_multithread, display=self.__is_visualized by
\* __process_streamer.
WorkerDisplays == run_mode = "multiproc" /\ is_visualized

\* if frame_data is None: print("Failed to grab frame. Exiting loop."); break
\* if display: self.__display_frame(window_name, frame, capture_time) ...
\*     if cv2.waitKey(1) & 0xFF == ord('q'): break
\* (local_display_count and local_display_start, which only feed the printed
\* statistics, are not kept.)
WorkerGrabbed(s) ==
    /\ wpc[s] = "w_grabwait"
    /\ mpc[WorkerObj(s)] = "ret"
    /\ IF mret[WorkerObj(s)] = "None"
       THEN /\ wpc' = [wpc EXCEPT ![s] = "w_ret"]
            /\ wend' = [wend EXCEPT ![s] = "failed"]
            /\ UNCHANGED <<dispvars, aborted>>
       ELSE IF WorkerDisplays
            THEN /\ DisplayFrame(WorkerObj(s), wcapture_time[s])
                 /\ \/ /\ aborted' = TRUE
                       /\ wpc' = [wpc EXCEPT ![s] = "w_ret"]
                       /\ wend' = [wend EXCEPT ![s] = "key"]
                    \/ /\ UNCHANGED <<aborted, wend>>
                       /\ wpc' = [wpc EXCEPT ![s] = "w_while"]
            ELSE /\ wpc' = [wpc EXCEPT ![s] = "w_while"]
                 /\ UNCHANGED <<dispvars, aborted, wend>>
    /\ LeaveMethod(WorkerObj(s))
    /\ UNCHANGED <<cfgvars, orchvars, envvars, objvars, peekvars, pubvars,
                   thrvars, gstvars, mainpc, midx, active, kframe, kts, ktsof,
                   overall_start, wstart, wcapture_time, results_dict>>

\* The window name connect_cameras gives the streamer of URL s
\* ("Stream {idx + 1}"), which __run_multiprocess hands to its child.
WindowName(s) == s

\* results_dict[window_name] = {...}, written by the child of streamer s;
\* the variant that writes it a second time.
StoreResultTwice(s) ==
    results_dict' = [results_dict EXCEPT ![WindowName(s)] = Append(Append(@, s), s)]
StoreResult(s) ==
    results_dict' = [results_dict EXCEPT ![WindowName(s)] = Append(@, s)]

\* The loop is left.  A thread of __run_multithread ends here.  The child of
\* __run_multiprocess stores its results and calls streamer.release(), which
\* FFmpegSingleCam has and GStreamerSingleCam has not (AttributeError).
WorkerReturn(s) ==
    /\ wpc[s] = "w_ret"
    /\ IF run_mode = "multiproc"
       THEN /\ StoreResult(s)
            /\ IF cls[Child(s)] = "FFmpegSingleCam"
               THEN Release(Child(s)) /\ wpc' = [wpc EXCEPT ![s] = "w_done"]
               ELSE UNCHANGED <<openh, cap>> /\ wpc' = [wpc EXCEPT ![s] = "w_crashed"]
       ELSE /\ UNCHANGED <<openh, cap, results_dict>>
            /\ wpc' = [wpc EXCEPT ![s] = "w_done"]
    /\ UNCHANGED <<cfgvars, orchvars, now, nexth, nframes, ncalls, nrel,
                   first_start_time, latest_frame, latest_timestamp,
                   frame_count, read_start_time, methvars, peekvars, pubvars,
                   thrvars, gstvars, dispvars, mainvars, wstart, wcapture_time,
                   wend>>

\* -------------------------------------------------------------------- spec
InitObjects ==
    /\ nexth = 0
    /\ openh = {}
    /\ nframes = [c \in UrlObjs |-> 0]
    /\ ncalls = 0
    /\ nrel = 0
    /\ cap = [s \in Sources |-> None]
    /\ first_start_time = [s \in Sources |-> None]
    /\ latest_frame = [s \in Sources |-> None]
    /\ latest_timestamp = [s \in Sources |-> None]
    /\ frame_count = [s \in Sources |-> 0]
    /\ read_start_time = [s \in Sources |-> None]
    /\ meth = [s \in Sources |-> "none"]
    /\ mpc = [s \in Sources |-> "idle"]
    /\ mret = [s \in Sources |-> "None"]
    /\ rframe = [s \in Sources |-> None]
    /\ rts = [s \in Sources |-> None]
    /\ try_times = [s \in Sources |-> 0]
    /\ try_interval = [s \in Sources |-> 0]
    /\ attempt = [s \in Sources |-> 0]
    /\ lcap = [s \in Sources |-> None]
    /\ lframe = [s \in Sources |-> None]
    /\ wake = [s \in Sources |-> 0]
    /\ cstart = [s \in Sources |-> 0]
    /\ opens = [s \in Sources |-> 0]
    /\ waits = [s \in Sources |-> 0]
    /\ ppc = [s \in Sources |-> "idle"]
    /\ pframe = [s \in Sources |-> None]
    /\ pts = [s \in Sources |-> None]
    /\ ptsof = [s \in Sources |-> None]
    /\ pdirty = [s \in Sources |-> FALSE]
    /\ npub = [s \in Sources |-> 0]
    /\ lastpub = [s \in Sources |-> None]
    /\ lock = [s \in Sources |-> "free"]
    /\ stopped = [s \in Sources |-> FALSE]
    /\ tpc = [s \in Sources |-> "off"]
    /\ tframe = [s \in Sources |-> None]
    /\ tts = [s \in Sources |-> None]
    /\ taken = [s \in Sources |-> FALSE]
    /\ wpc = [s \in Sources |-> "off"]
    /\ wstart = [s \in Sources |-> None]
    /\ wcapture_time = [s \in Sources |-> None]
    /\ wend = [s \in Sources |-> "-"]
    /\ results_dict = [w \in UrlObjs |-> <<>>]
    /\ last_displayed_timestamp = [s \in Sources |-> None]
    /\ display_frame_count = [s \in Sources |-> 0]
    /\ display_start_time = [s \in Sources |-> None]
    /\ prevcounted = [s \in Sources |-> None]
    /\ lastpass = [s \in Sources |-> "none"]
    /\ midx = (IF prog \in {"thr", "vis", "seqr"} THEN 1 ELSE None)
    /\ active = {}
    /\ kframe = None
    /\ kts = None
    /\ ktsof = None
    /\ overall_start = None
    /\ aborted = FALSE
    /\ roundcopy = {}
    /\ roundread = {}
    /\ dropped = {}
    /\ oldcap = [s \in Sources |-> None]
    /\ streamers = <<>>
    /\ run_begin = None
    /\ lost = {}

\* The connect harness: connect and release calls on an object of either
\* class that has the for loop of connect_cam, with any retry budget.
InitConn ==
    /\ prog = "conn"
    /\ now = 1
    /\ \E c \in {"FFmpegSingleCam", "RTSPStreamer"} : cls = [s \in Sources |-> c]
    /\ \E b \in {"dead", "live"} : backend = [s \in Sources |-> b]
    /\ hN \in 0..MaxTry
    /\ hX \in 1..MaxInterval
    /\ mainpc = "harness"
    /\ run_mode = "none"
    /\ is_visualized = TRUE
    /\ urls = {}
    /\ duration = None
    /\ InitObjects

\* The slot harness: every method of an FFmpegSingleCam or of a
\* GStreamerSingleCam, called by one thread, and get_frame called by a
\* second one.
InitCam ==
    /\ prog = "cam"
    /\ now = 1
    /\ \E c \in {"FFmpegSingleCam", "GStreamerSingleCam"} :
            cls = [s \in Sources |-> c]
    /\ backend = [s \in Sources |-> "live"]
    /\ hN = 1
    /\ hX = 1
    /\ mainpc = "harness"
    /\ run_mode = "none"
    /\ is_visualized = TRUE
    /\ urls = {}
    /\ duration = None
    /\ InitObjects

\* The threaded report program: main() on a network whose cameras answer.
InitThr ==
    /\ prog = "thr"
    /\ now = 1
    /\ cls = [s \in Sources |-> "RTSPStreamerThreaded"]
    /\ backend = [s \in Sources |-> "live"]
    /\ hN = ThrTryTimes
    /\ hX = ThrTryInterval
    /\ mainpc = "t_conn"
    /\ run_mode = "none"
    /\ is_visualized = TRUE
    /\ urls = {}
    /\ duration = None
    /\ InitObjects

NextThr ==
    \/ ThrMainConnect
    \/ ThrMainConnected
    \/ ThrProcessStart
    \/ ThrWhile
    \/ ThrLockRead
    \/ ThrReadTs
    \/ ThrProcess
    \/ ThrKey
    \/ ThrReleaseStop
    \/ ThrReleased
    \/ \E s \in Sources : ThrReleaseJoin(s)
    \/ \E s \in Sources : ThrCallRelease(s)
    \/ \E s \in Sources : ThrReturn(s)
    \/ \E s \in Sources : ThrConnectPublishFrame(s)
    \/ \E s \in Sources : ThrConnectPublishTs(s)
    \/ \E s \in Sources : ThrConnectStart(s)
    \/ \E s \in Sources : CapLoopCheck(s)
    \/ \E s \in Sources : CapLoopRead(s)
    \/ \E s \in Sources : CapPublishFrame(s)
    \/ \E s \in Sources : CapPublishTs(s)
    \/ \E s \in Sources : CapCount(s)

\* MultiCamVisualizer on one camera URL: connect_cameras, then run().
InitVis ==
    /\ prog = "vis"
    /\ now = 1
    /\ \E c \in {"FFmpegSingleCam", "GStreamerSingleCam"} :
            cls = [s \in Sources |-> c]
    /\ backend = [s \in Sources |-> "live"]
    /\ hN = VisTryTimes
    /\ hX = VisTryInterval
    /\ mainpc = "v_conn"
    /\ run_mode \in {"seq", "multithread", "multiproc"}
    /\ is_visualized \in BOOLEAN
    /\ urls = {1}
    /\ duration = VisDuration
    /\ InitObjects

NextVis ==
    \/ VisConnectFFmpeg
    \/ VisConnectGst
    \/ VisConnected
    \/ VisRun
    \/ VisSeqWhile
    \/ VisSeqGrab
    \/ VisSeqDisplay
    \/ VisSeqKey
    \/ VisMtWhile
    \/ VisJoin
    \/ \E s \in UrlObjs : ChildConnectFFmpeg(s)
    \/ \E s \in UrlObjs : ChildConnectGst(s)
    \/ \E s \in UrlObjs : ChildConnected(s)
    \/ \E s \in UrlObjs : WorkerStart(s)
    \/ \E s \in UrlObjs : WorkerWhile(s)
    \/ \E s \in UrlObjs : WorkerGrabbed(s)
    \/ \E s \in UrlObjs : WorkerReturn(s)

NextCam ==
    \/ \E s \in CamObjs : CallConnect(s)
    \/ \E s \in CamObjs : CallGrab(s)
    \/ \E s \in CamObjs : CallRelease(s)
    \/ \E s \in CamObjs : Return(s)
    \/ \E s \in CamObjs : GetFrame(s)
    \/ \E s \in CamObjs : CallGstConnect(s)
    \/ \E s \in CamObjs : CallGstGrab(s)
    \/ \E s \in Sources : GstSample(s)
    \/ \E s \in Sources : GstPublish(s)
    \/ \E s \in Sources : GstGrabRead(s)
    \/ \E s \in Sources : GstGrabClear(s)
    \/ \E s \in Sources : ConnectAttempt(s)
    \/ \E s \in Sources : ConnectWake(s)
    \/ \E s \in Sources : ConnectExhausted(s)
    \/ \E s \in Sources : ConnectShow(s)
    \/ \E s \in Sources : ConnectWriteFrame(s)
    \/ \E s \in Sources : ConnectWriteTs(s)
    \/ \E s \in Sources : GrabRead(s)
    \/ \E s \in Sources : GrabWriteFrame(s)
    \/ \E s \in Sources : GrabWriteTs(s)
    \/ \E s \in Sources : GrabCount(s)
    \/ Tick

Init == InitConn \/ InitCam \/ InitThr \/ InitVis
Next == NextCam \/ NextThr \/ NextVis
Spec == Init /\ [][Next]_vars

\* ================================================================
\* The sequential report program (run_ffmpeg_oop_multi_report.py)
\* ================================================================
\* main(): connect_server(try_times=2, try_interval=2), and the same budget
\* handed to process_streamers
SeqTryTimes == 2
SeqTryInterval == 2

\* active_streamers.remove(streamer)
RemoveNothing(S, s) == S
Remove(S, s) == S \ {s}

\* The for loop of process_streamers goes on to the streamer after s of the
\* copy, or the round ends with cv2.waitKey.
SeqAdvance(s) ==
    IF NextIn(roundcopy, s) = None
    THEN mainpc' = "s_key" /\ midx' = None
    ELSE mainpc' = "s_read" /\ midx' = NextIn(roundcopy, s)

\* for streamer in all_streamers: streamer.connect_server(2, 2)
SeqMainConnect ==
    /\ mainpc = "s_conn"
    /\ mpc[midx] = "idle"
    /\ EnterConnect(midx, SeqTryTimes, SeqTryInterval)
    /\ mainpc' = "s_connwait"
    /\ UNCHANGED <<cfgvars, orchvars, envvars, objvars, peekvars, pubvars,
                   thrvars, gstvars, workvars, dispvars, midx, active, kframe,
                   kts, ktsof, overall_start, aborted>>

\* if streamer.connect_server(...): active_streamers.append(streamer)
SeqMainConnected ==
    /\ mainpc = "s_connwait"
    /\ mpc[midx] = "ret"
    /\ active' = IF mret[midx] = "True" THEN active \cup {midx} ELSE active
    /\ LeaveMethod(midx)
    /\ IF NextIn(SeqObjs, midx) = None
       THEN mainpc' = "s_start" /\ midx' = None
       ELSE mainpc' = "s_conn" /\ midx' = NextIn(SeqObjs, midx)
    /\ UNCHANGED <<cfgvars, orchvars, envvars, objvars, peekvars, pubvars,
                   thrvars, gstvars, workvars, dispvars, kframe, kts, ktsof,
                   overall_start, aborted>>

\* process_streamers: overall_start = time.time()
SeqProcessStart ==
    /\ mainpc = "s_start"
    /\ overall_start' = now
    /\ mainpc' = "s_while"
    /\ UNCHANGED <<cfgvars, orchvars, envvars, objvars, methvars, peekvars,
                   pubvars, thrvars, gstvars, workvars, dispvars, midx, active,
                   kframe, kts, ktsof, aborted>>

\* while time.time() - overall_start < duration:
\*     for streamer in active_streamers[:]:
SeqWhile ==
    /\ mainpc = "s_while"
    /\ IF now - overall_start < SeqDuration
       THEN /\ roundcopy' = active
            /\ roundread' = {}
            /\ IF active = {}
               THEN mainpc' = "s_key" /\ midx' = None
               ELSE mainpc' = "s_read" /\ midx' = NextIn(active, 0)
       ELSE /\ mainpc' = "s_final"
            /\ midx' = NextIn(SeqObjs, 0)
            /\ UNCHANGED <<roundcopy, roundread>>
    /\ UNCHANGED <<cfgvars, dropped, oldcap, listvars, envvars, objvars, methvars,
                   peekvars, pubvars, thrvars, gstvars, workvars, dispvars,
                   active, kframe, kts, ktsof, overall_start, aborted>>

\* ret, frame = streamer.read_next_frame().  On a frame: frame_count += 1,
\* the overlay and visualize_frame.  On (False, None): streamer.release() and
\* the call streamer.connect_server(try_times, try_interval).
SeqRead ==
    /\ mainpc = "s_read"
    /\ mpc[midx] = "idle"
    /\ roundread' = roundread \cup {midx}
    /\ \E o \in (IF cap[midx] = None THEN {"read_fails"} ELSE ReadOutcomes(midx)) :
        IF o = "ok"
        THEN /\ nframes' = [nframes EXCEPT ![Cam(midx)] = @ + 1]
             /\ frame_count' = [frame_count EXCEPT ![midx] = Counted(@)]
             /\ SeqAdvance(midx)
             /\ UNCHANGED <<cap, openh, oldcap, methvars>>
        ELSE /\ oldcap' = [oldcap EXCEPT ![midx] = cap[midx]]
             /\ Release(midx)
             /\ EnterConnect(midx, SeqTryTimes, SeqTryInterval)
             /\ mainpc' = "s_reconn"
             /\ UNCHANGED <<nframes, frame_count, midx>>
    /\ UNCHANGED <<cfgvars, roundcopy, dropped, listvars, now, nexth, ncalls, nrel,
                   first_start_time, latest_frame, latest_timestamp,
                   read_start_time, peekvars, pubvars, thrvars, gstvars,
                   workvars, dispvars, active, kframe, kts, ktsof,
                   overall_start, aborted>>

\* if not streamer.connect_server(...): active_streamers.remove(streamer);
\* continue
SeqReconnected ==
    /\ mainpc = "s_reconn"
    /\ mpc[midx] = "ret"
    /\ IF mret[midx] = "True"
       THEN UNCHANGED <<active, dropped>>
       ELSE /\ active' = Remove(active, midx)
            /\ dropped' = dropped \cup {midx}
    /\ LeaveMethod(midx)
    /\ SeqAdvance(midx)
    /\ UNCHANGED <<cfgvars, roundcopy, roundread, oldcap, listvars, envvars, objvars,
                   peekvars, pubvars, thrvars, gstvars, workvars, dispvars,
                   kframe, kts, ktsof, overall_start, aborted>>

\* if cv2.waitKey(1) & 0xFF == ord('q'): break
SeqKey ==
    /\ mainpc = "s_key"
    /\ \/ /\ aborted' = TRUE
          /\ mainpc' = "s_final"
          /\ midx' = NextIn(SeqObjs, 0)
       \/ /\ mainpc' = "s_while"
          /\ UNCHANGED <<aborted, midx>>
    /\ UNCHANGED <<cfgvars, orchvars, envvars, objvars, methvars, peekvars,
                   pubvars, thrvars, gstvars, workvars, dispvars, active,
                   kframe, kts, ktsof, overall_start>>

\* finally: the FPS report, then for streamer in all_streamers:
\* streamer.release()
SeqFinal ==
    /\ mainpc = "s_final"
    /\ Release(midx)
    /\ IF NextIn(SeqObjs, midx) = None
       THEN mainpc' = "s_done" /\ midx' = None
       ELSE mainpc' = "s_final" /\ midx' = NextIn(SeqObjs, midx)
    /\ UNCHANGED <<cfgvars, orchvars, now, nexth, nframes, ncalls, nrel,
                   first_start_time, latest_frame, latest_timestamp,
                   frame_count, read_start_time, methvars, peekvars, pubvars,
                   thrvars, gstvars, workvars, dispvars, active, kframe, kts,
                   ktsof, overall_start, aborted>>

\* The sequential report program: main() on any network.
InitSeq ==
    /\ prog = "seqr"
    /\ now = 1
    /\ cls = [s \in Sources |-> "RTSPStreamer"]
    /\ backend = [s \in Sources |-> "live"]
    /\ hN = SeqTryTimes
    /\ hX = SeqTryInterval
    /\ mainpc = "s_conn"
    /\ run_mode = "none"
    /\ is_visualized = TRUE
    /\ urls = {}
    /\ duration = None
    /\ InitObjects

NextSeq ==
    \/ SeqMainConnect
    \/ SeqMainConnected
    \/ SeqProcessStart
    \/ SeqWhile
    \/ SeqRead
    \/ SeqReconnected
    \/ SeqKey
    \/ SeqFinal
    \/ \E s \in SeqObjs : ConnectAttempt(s)
    \/ \E s \in SeqObjs : ConnectWake(s)
    \/ \E s \in SeqObjs : ConnectExhausted(s)
    \/ \E s \in SeqObjs : ConnectShow(s)
    \/ Tick

SpecSeq == InitSeq /\ [][NextSeq]_vars

\* ================================================================
\* The single-source programs (run_ffmpeg.py, run_ffmpeg_oop.py)
\* ================================================================
\* main() / loop_load_frames(try_times, try_interval) keep one local `cap`;
\* cap[OneObj] is that local.  repeat_access / server_access is the connect
\* of these programs: it returns the handle, or None.
OneObj == 1

\* One iteration of `for i in range(try_times)`: cap = cv2.VideoCapture(url);
\* ret, frame = cap.read(); on failure cap.release() and
\* time.sleep(try_interval); on success return cap.
AccessAttempt(s) ==
    /\ UNCHANGED drivervars
    /\ mpc[s] = "cc_loop"
    /\ attempt[s] < RangeLen(try_times[s])
    /\ \E o \in ReadOutcomes(s) :
        /\ attempt' = [attempt EXCEPT ![s] = @ + 1]
        /\ opens' = [opens EXCEPT ![s] = @ + 1]
        /\ nexth' = nexth + 1
        /\ IF o = "ok"
           THEN /\ openh' = openh \cup {nexth + 1}
                /\ lcap' = [lcap EXCEPT ![s] = nexth + 1]
                /\ nframes' = [nframes EXCEPT ![Cam(s)] = @ + 1]
                /\ mpc' = [mpc EXCEPT ![s] = "ret"]
                /\ mret' = [mret EXCEPT ![s] = "True"]
                /\ UNCHANGED wake
           ELSE /\ openh' = openh
                /\ wake' = [wake EXCEPT ![s] = WakeTime(s)]
                /\ mpc' = [mpc EXCEPT ![s] = "cc_sleep"]
                /\ UNCHANGED <<lcap, nframes, mret>>
    /\ UNCHANGED <<cfgvars, orchvars, now, ncalls, nrel, objvars, meth, rframe,
                   rts, lframe, cstart, try_times, try_interval, waits,
                   peekvars, pubvars>>

\* cap = repeat_access(rtsp_url, try_times, try_interval)
OneStart ==
    /\ mainpc = "o_start"
    /\ EnterConnect(OneObj, hN, hX)
    /\ mainpc' = "o_access"
    /\ UNCHANGED <<cfgvars, orchvars, envvars, objvars, peekvars, pubvars,
                   thrvars, gstvars, dispvars, workvars, midx, active, kframe,
                   kts, ktsof, overall_start, aborted>>

\* The call returns and `cap` is bound to its result.  The VideoCapture `cap`
\* was bound to before is released by nobody: it is closed if and when the
\* interpreter collects it.
\* First call: `if cap is None: return`.  Call after a failed read:
\* `if cap is None: break`, else `continue`.
OneAccessed ==
    /\ mainpc \in {"o_access", "o_reaccess"}
    /\ mpc[OneObj] = "ret"
    /\ cap' = [cap EXCEPT ![OneObj] =
                    IF mret[OneObj] = "True" THEN lcap[OneObj] ELSE None]
    /\ \E collected \in (IF cap[OneObj] = None THEN {FALSE} ELSE BOOLEAN) :
            openh' = IF collected THEN openh \ {cap[OneObj]} ELSE openh
    /\ mainpc' = CASE mret[OneObj] = "True" -> "o_read"
                   [] mainpc = "o_access" -> "o_done"
                   [] OTHER -> "o_release"
    /\ LeaveMethod(OneObj)
    /\ UNCHANGED <<cfgvars, orchvars, now, nexth, nframes, ncalls, nrel,
                   first_start_time, latest_frame, latest_timestamp,
                   frame_count, read_start_time, peekvars, pubvars, thrvars,
                   gstvars, dispvars, workvars, midx, active, kframe, kts,
                   ktsof, overall_start, aborted>>

\* ret, frame = cap.read().  On a frame: imshow, and 'q' breaks.  On a
\* failure: cap = repeat_access(...) is called, the handle that failed is
\* not released.
OneRead ==
    /\ mainpc = "o_read"
    /\ \E o \in ReadOutcomes(OneObj) :
        IF o = "ok"
        THEN /\ nframes' = [nframes EXCEPT ![Cam(OneObj)] = @ + 1]
             /\ \/ mainpc' = "o_release" /\ aborted' = TRUE
                \/ mainpc' = "o_read" /\ UNCHANGED aborted
             /\ UNCHANGED methvars
        ELSE /\ EnterConnect(OneObj, hN, hX)
             /\ mainpc' = "o_reaccess"
             /\ UNCHANGED <<nframes, aborted>>
    /\ UNCHANGED <<cfgvars, orchvars, now, nexth, openh, ncalls, nrel, objvars,
                   peekvars, pubvars, thrvars, gstvars, dispvars, workvars,
                   midx, active, kframe, kts, ktsof, overall_start>>

\* After the loop: cap.release(); cv2.destroyAllWindows().  With cap = None
\* the attribute access raises AttributeError.
OneRelease ==
    /\ mainpc = "o_release"
    /\ IF cap[OneObj] = None
       THEN mainpc' = "o_raised" /\ UNCHANGED <<openh, cap>>
       ELSE mainpc' = "o_done" /\ Release(OneObj)
    /\ UNCHANGED <<cfgvars, orchvars, now, nexth, nframes, ncalls, nrel,
                   first_start_time, latest_frame, latest_timestamp,
                   frame_count, read_start_time, methvars, peekvars, pubvars,
                   thrvars, gstvars, dispvars, workvars, midx, active, kframe,
                   kts, ktsof, overall_start, aborted>>

\* The program is called with any retry budget, on a camera that may stop
\* answering at any read or that never answers.
InitOne ==
    /\ prog = "one"
    /\ now = 1
    /\ cls = [s \in Sources |-> "RTSPstreamer"]
    /\ \E b \in {"dead", "live"} : backend = [s \in Sources |-> b]
    /\ hN \in 0..MaxTry
    /\ hX \in 1..MaxInterval
    /\ mainpc = "o_start"
    /\ run_mode = "none"
    /\ is_visualized = TRUE
    /\ urls = {}
    /\ duration = None
    /\ InitObjects

NextOne ==
    \/ OneStart
    \/ OneAccessed
    \/ OneRead
    \/ OneRelease
    \/ AccessAttempt(OneObj)
    \/ ConnectWake(OneObj)
    \/ ConnectExhausted(OneObj)
    \/ Tick

SpecOne == InitOne /\ [][NextOne]_vars

\* ================================================================
\* MultiCamVisualizer given several URLs (rtsp_urls of test.py): each camera
\* either never answers or streams; every streamer is of the chosen class.
\* While connect_cameras runs, time passes in the sleeps between attempts;
\* in the sequential run, time passes while grab_frame waits.
\* Visualization is enabled.
MultiBackends == {"dead", "steady"}
\* The explored runs: with the GStreamer class at most one camera streams.
MultiScenario ==
    cls[1] = "GStreamerSingleCam" => \E s \in UrlObjs : backend[s] = "dead"

InitMulti ==
    /\ prog = "vis"
    /\ now = 1
    /\ \E c \in {"FFmpegSingleCam", "GStreamerSingleCam"} :
            cls = [s \in Sources |-> c]
    /\ \E b \in [UrlObjs -> MultiBackends] :
            backend = [s \in Sources |-> b[Cam(s)]]
    /\ MultiScenario
    /\ hN = VisTryTimes
    /\ hX = VisTryInterval
    /\ mainpc = "v_conn"
    /\ run_mode \in {"seq", "multithread", "multiproc"}
    /\ is_visualized = TRUE
    /\ urls = UrlObjs
    /\ duration = MultiDuration
    /\ InitObjects

NextMulti ==
    \/ NextVis
    \/ \E s \in Sources : GstSample(s)
    \/ \E s \in Sources : GstPublish(s)
    \/ \E s \in Sources : GstGrabRead(s)
    \/ \E s \in Sources : GstGrabClear(s)
    \/ \E s \in Sources : ConnectAttempt(s)
    \/ \E s \in Sources : ConnectWake(s)
    \/ \E s \in Sources : ConnectExhausted(s)
    \/ \E s \in Sources : ConnectWriteFrame(s)
    \/ \E s \in Sources : ConnectWriteTs(s)
    \/ \E s \in Sources : GrabRead(s)
    \/ \E s \in Sources : GrabWriteFrame(s)
    \/ \E s \in Sources : GrabWriteTs(s)
    \/ \E s \in Sources : GrabCount(s)
    \/ Tick

SpecMulti == InitMulti /\ [][NextMulti]_vars

\* connect_cameras(stream_type, urls) alone, called with "ffmpeg" or with a
\* stream type the code does not know, on the cameras of SpecMulti.
InitSetup ==
    /\ prog = "vis"
    /\ now = 1
    /\ \E c \in {"FFmpegSingleCam", "unknown"} : cls = [s \in Sources |-> c]
    /\ \E b \in [UrlObjs -> MultiBackends] :
            backend = [s \in Sources |-> b[Cam(s)]]
    /\ hN = VisTryTimes
    /\ hX = VisTryInterval
    /\ mainpc = "v_conn"
    /\ run_mode = "seq"
    /\ is_visualized = TRUE
    /\ urls = UrlObjs
    /\ duration = MultiDuration
    /\ InitObjects

NextSetup ==
    \/ VisConnectUnknown
    \/ VisConnectFFmpeg
    \/ VisConnected
    \/ \E s \in UrlObjs : ConnectAttempt(s)
    \/ \E s \in UrlObjs : ConnectWake(s)
    \/ \E s \in UrlObjs : ConnectExhausted(s)
    \/ \E s \in UrlObjs : ConnectWriteFrame(s)
    \/ \E s \in UrlObjs : ConnectWriteTs(s)
    \/ Tick

SpecSetup == InitSetup /\ [][NextSetup]_vars

\* MultiCamVisualizer in sequential mode with a duration that outlasts one
\* grab_frame timeout, so that a round can follow a round in which a source
\* timed out.
RoundsDuration == 3
InitRounds ==
    /\ prog = "vis"
    /\ now = 1
    /\ \E c \in {"FFmpegSingleCam", "GStreamerSingleCam"} :
            cls = [s \in Sources |-> c]
    /\ \E b \in [UrlObjs -> MultiBackends] :
            backend = [s \in Sources |-> b[Cam(s)]]
    /\ MultiScenario
    /\ hN = VisTryTimes
    /\ hX = VisTryInterval
    /\ mainpc = "v_conn"
    /\ run_mode = "seq"
    /\ is_visualized = TRUE
    /\ urls = UrlObjs
    /\ duration = RoundsDuration
    /\ InitObjects

NextRounds ==
    \/ VisConnectFFmpeg
    \/ VisConnectGst
    \/ VisConnected
    \/ VisRun
    \/ VisSeqWhile
    \/ VisSeqGrab
    \/ VisSeqDisplay
    \/ VisSeqKey
    \/ \E s \in UrlObjs : GstSample(s)
    \/ \E s \in UrlObjs : GstPublish(s)
    \/ \E s \in UrlObjs : GstGrabRead(s)
    \/ \E s \in UrlObjs : GstGrabClear(s)
    \/ \E s \in UrlObjs : ConnectAttempt(s)
    \/ \E s \in UrlObjs : ConnectWake(s)
    \/ \E s \in UrlObjs : ConnectExhausted(s)
    \/ \E s \in UrlObjs : ConnectWriteFrame(s)
    \/ \E s \in UrlObjs : ConnectWriteTs(s)
    \/ \E s \in UrlObjs : GrabRead(s)
    \/ \E s \in UrlObjs : GrabWriteFrame(s)
    \/ \E s \in UrlObjs : GrabWriteTs(s)
    \/ \E s \in UrlObjs : GrabCount(s)
    \/ Tick

SpecRounds == InitRounds /\ [][NextRounds]_vars

\* A client of one GStreamerSingleCam: connect_cam(), then grab_frame calls,
\* with grab_frame taken statement by statement against the appsink
\* callback.
InitTake ==
    /\ prog = "cam"
    /\ now = 1
    /\ cls = [s \in Sources |-> "GStreamerSingleCam"]
    /\ backend = [s \in Sources |-> "live"]
    /\ hN = 1
    /\ hX = 1
    /\ mainpc = "harness"
    /\ run_mode = "none"
    /\ is_visualized = TRUE
    /\ urls = {}
    /\ duration = None
    /\ InitObjects

NextTake ==
    \/ \E s \in CamObjs : CallGstConnect(s)
    \/ \E s \in CamObjs : CallGstGrab(s)
    \/ \E s \in CamObjs : Return(s)
    \/ \E s \in CamObjs : GstSample(s)
    \/ \E s \in CamObjs : GstPublish(s)
    \/ \E s \in CamObjs : GstGrabTest(s)
    \/ \E s \in CamObjs : GstGrabTimeout(s)
    \/ \E s \in CamObjs : GstGrabClear(s)
    \/ Tick

SpecTake == InitTake /\ [][NextTake]_vars

\* ---------------------------------------------------------------- progress
\* MultiCamVisualizer under the assumptions that every step of the program
\* that can be taken is eventually taken and that the clock advances.
\* A step of the program waits for the clock: time.sleep(try_interval) in
\* connect_cam, the timeout loops of grab_frame, the duration tests of
\* __run_sequential, __run_multithread and __capture_loop.
TimeAwaited ==
    \/ \E s \in Sources : mpc[s] \in {"cc_sleep", "gf_loop", "gg_loop"}
    \/ mainpc \in {"v_while", "mt_while"}
    \/ \E s \in UrlObjs : wpc[s] = "w_while"

\* The time one of these steps waits for has come.
Overdue ==
    \/ \E s \in Sources : mpc[s] = "cc_sleep" /\ now >= wake[s]
    \/ \E s \in Sources :
            mpc[s] \in {"gf_loop", "gg_loop"} /\ now - cstart[s] > GrabTimeout
    \/ mainpc \in {"v_while", "mt_while"} /\ now - overall_start >= duration
    \/ \E s \in UrlObjs : wpc[s] = "w_while" /\ now - wstart[s] >= duration

\* The clock advances by one second while a step waits for it; a step whose
\* time has come is taken before the next second passes.
TickLive ==
    /\ UNCHANGED drivervars
    /\ now < LiveClock
    /\ TimeAwaited
    /\ ~Overdue
    /\ now' = now + 1
    /\ UNCHANGED <<cfgvars, orchvars, nexth, openh, nframes, ncalls, nrel, objvars, methvars,
                   peekvars, pubvars>>

\* The steps of the main thread and process.
MainStep ==
    \/ VisConnectFFmpeg
    \/ VisConnectGst
    \/ VisConnected
    \/ VisRun
    \/ VisSeqWhile
    \/ VisSeqGrab
    \/ VisSeqDisplay
    \/ VisSeqKey
    \/ VisMtWhile
    \/ VisJoin

\* The steps of the thread or child process of streamer s.
WorkerStep(s) ==
    \/ ChildConnectFFmpeg(s)
    \/ ChildConnectGst(s)
    \/ ChildConnected(s)
    \/ WorkerStart(s)
    \/ WorkerWhile(s)
    \/ WorkerGrabbed(s)
    \/ WorkerReturn(s)

\* The steps of a method running on object s.
MethodStep(s) ==
    \/ GstGrabRead(s)
    \/ GstGrabClear(s)
    \/ ConnectAttempt(s)
    \/ ConnectWake(s)
    \/ ConnectExhausted(s)
    \/ ConnectWriteFrame(s)
    \/ ConnectWriteTs(s)
    \/ GrabRead(s)
    \/ GrabWriteFrame(s)
    \/ GrabWriteTs(s)
    \/ GrabCount(s)

\* The streaming thread of the pipeline of s delivers a sample.
PipelineStep(s) == GstSample(s) \/ GstPublish(s)

NextLive ==
    \/ MainStep
    \/ \E s \in UrlObjs : WorkerStep(s)
    \/ \E s \in Sources : MethodStep(s)
    \/ \E s \in Sources : PipelineStep(s)
    \/ TickLive

\* Every backend read returns (the steps of a method are taken), every
\* thread and process is scheduled, and the clock advances: a loop that
\* comes back to its time test again and again sees a later time.  Nothing
\* is assumed of the cameras: a pipeline may deliver no further sample.
Fairness ==
    /\ SF_vars(TickLive)
    /\ WF_vars(MainStep)
    /\ \A s \in UrlObjs : WF_vars(WorkerStep(s))
    /\ \A s \in Sources : WF_vars(MethodStep(s))

\* connect_cameras on one URL, then run(), in one of the three run modes,
\* on a camera that never answers or one whose opens and reads may fail.
InitLive ==
    /\ prog = "vis"
    /\ now = 1
    /\ \E c \in {"FFmpegSingleCam", "GStreamerSingleCam"} :
            cls = [s \in Sources |-> c]
    /\ \E b \in {"dead", "live"} : backend = [s \in Sources |-> b]
    /\ hN = VisTryTimes
    /\ hX = VisTryInterval
    /\ mainpc = "v_conn"
    /\ run_mode \in {"seq", "multithread", "multiproc"}
    /\ is_visualized = TRUE
    /\ urls = {1}
    /\ duration = MultiDuration
    /\ InitObjects

SpecLive == InitLive /\ [][NextLive]_vars /\ Fairness

\* ------------------------------------------------------------------ claims
\* A connect call on object s has returned and its result is not yet taken.
ConnectReturned(s) == meth[s] = "connect" /\ mpc[s] = "ret"

\* C1: on a backend whose every open or probing read fails, connect_cam (and
\* connect_server of the sequential report variant) called with try_times = N
\* makes exactly N open attempts, returns False, and leaves the object with no
\* handle (cap is None).
C1_DeadBackendConnect ==
    \A s \in Sources :
        (backend[s] = "dead" /\ ConnectReturned(s)) =>
            /\ mret[s] = "False"
            /\ opens[s] = try_times[s]
            /\ cap[s] = None

\* C1 witness: a connect_cam with try_times = 3 has returned on a dead backend.
C1_Witness ==
    \E s \in Sources :
        /\ backend[s] = "dead" /\ ConnectReturned(s)
        /\ cls[s] = "FFmpegSingleCam"
        /\ try_times[s] = 3 /\ opens[s] = 3

\* C2: when the backend yields its first frame on the k-th attempt of a
\* connect, the connect returns True after exactly k attempts and k-1 sleeps
\* of try_interval each, so at least (k-1)*try_interval after it was called
\* (k = 3: at least 2*X), and the object keeps the handle of that attempt, open.
C2_ConnectOnKthAttempt ==
    \A s \in Sources :
        (ConnectReturned(s) /\ lframe[s] # None) =>
            /\ mret[s] = "True"
            /\ opens[s] = attempt[s]
            /\ waits[s] = opens[s] - 1
            /\ now - cstart[s] >= waits[s] * try_interval[s]
            /\ cap[s] = lcap[s]
            /\ cap[s] \in openh

\* C2 witness: connect_cam(try_times=3, try_interval=2) has returned True
\* after two failed attempts and a third that succeeded.
C2_Witness ==
    \E s \in Sources :
        /\ ConnectReturned(s) /\ mret[s] = "True"
        /\ try_times[s] = 3 /\ try_interval[s] = 2
        /\ opens[s] = 3 /\ waits[s] = 2

\* C4 (as stated): in the threaded variant display_frame_count <= frame_count
\* for every source at every point in time, under every interleaving of the
\* capture thread and the consumer.
C4_ThreadedDisplayedAtMostRead ==
    \A s \in Sources :
        cls[s] = "RTSPStreamerThreaded" =>
            display_frame_count[s] <= frame_count[s]

\* C4 witness: the consumer has counted the probing frame that connect_server
\* published, and the capture thread has counted no frame yet.
C4_Witness ==
    \E s \in Sources :
        /\ cls[s] = "RTSPStreamerThreaded"
        /\ display_frame_count[s] = 1 /\ frame_count[s] = 0
        /\ npub[s] = 1 /\ lastpass[s] = "new_shown"

\* C8: in the threaded variant the (frame, capture_time) pair the consumer
\* has read under streamer.lock was written by one single publish: the frame
\* is the frame of the publish that wrote the timestamp.
C8_ConsumerPairFromOnePublish ==
    (prog = "thr" /\ mainpc = "t_proc" /\ kframe # None) => kframe = ktsof

\* C8 witness: the consumer has read the pair of a publish of the capture
\* thread while that thread stood at the lock with its next frame.
C8_Witness ==
    /\ prog = "thr" /\ mainpc = "t_proc"
    /\ kframe >= 2 /\ kframe = ktsof
    /\ tpc[midx] = "wf" /\ tframe[midx] > kframe

\* C3: in MultiCamVisualizer, in every run mode and with both backends, the
\* display frame count of every source is at most the frame_count of its
\* streamer, at every reachable state.
C3_DisplayedAtMostRead ==
    prog = "vis" =>
        \A s \in Sources : display_frame_count[s] <= frame_count[s]

\* C3 witness: a visualizer run has displayed every frame its streamer has
\* counted, and there are at least two of them.
C3_Witness ==
    /\ prog = "vis"
    /\ \E s \in Sources :
         display_frame_count[s] = frame_count[s] /\ frame_count[s] >= 2

\* C5: for every source the capture timestamps the consumer counts are
\* strictly increasing in delivery order: the timestamp counted last is
\* greater than the one counted before it (None before the first).
C5_CountedTimestampsIncrease ==
    \A s \in Sources :
        display_frame_count[s] > 0 =>
            prevcounted[s] < last_displayed_timestamp[s]

\* C5 witness: __display_frame has counted two timestamps of a source and
\* then met the second one again.
C5_Witness ==
    \E s \in Sources :
        /\ prog = "vis"
        /\ display_frame_count[s] = 2 /\ prevcounted[s] # None
        /\ lastpass[s] = "dup_skipped"

\* C6 (as stated): a consumer pass that finds the timestamp of the slot equal
\* to the last one it handled for the source does no overlay and no display,
\* in MultiCamVisualizer.__display_frame and in the threaded process_streamers.
C6_NoWorkOnDuplicate ==
    \A s \in Sources : lastpass[s] # "dup_shown"

\* C6 witness: the threaded consumer has counted one timestamp of a source
\* and has then drawn and shown the same record once more.
C6_Witness ==
    \E s \in Sources :
        /\ prog = "thr"
        /\ lastpass[s] = "dup_shown" /\ display_frame_count[s] = 1

\* A publish into the slot of s has written the frame and not yet the rest.
PublishUnderWay(s) ==
    mpc[s] \in {"cc_wts", "gf_wts", "tc_wts"} \/ tpc[s] = "wts"

\* C7: last-write-wins in each slot implementation: while no publish is
\* under way and no take has touched the slot since the last completed
\* publish, the slot holds the frame of that publish; and a read performed
\* after it (get_frame not overlapped by a write, the consumer's read under
\* the lock) returns that frame with the timestamp that publish wrote.
C7_LastWriteWins ==
    \A s \in Sources :
        /\ (~PublishUnderWay(s) /\ ~taken[s]) => latest_frame[s] = lastpub[s]
        /\ (ppc[s] = "pair" /\ ~pdirty[s]) =>
                (pframe[s] = ptsof[s] /\ pts[s] # None)
        /\ (prog = "thr" /\ mainpc = "t_rts" /\ midx = s) =>
                kframe = lastpub[s]

\* C7 witness: two publishes into the slot of an FFmpegSingleCam have
\* completed and a get_frame performed after both has returned the second.
C7_Witness ==
    \E s \in Sources :
        /\ cls[s] = "FFmpegSingleCam"
        /\ npub[s] = 2 /\ ppc[s] = "pair" /\ ~pdirty[s]
        /\ pframe[s] = lastpub[s] /\ pframe[s] = 2

\* C9 (as stated): get_frame of an FFmpegSingleCam, run while a grab_frame of
\* the same object runs, returns empty or a (frame, timestamp) pair written by
\* one single successful read.
C9_PeekPairFromOneRead ==
    \A s \in Sources :
        (cls[s] = "FFmpegSingleCam" /\ ppc[s] = "pair") => pframe[s] = ptsof[s]

\* C10 (as stated): __capture_loop, once started, has ended only if the run
\* duration has elapsed or the operator has aborted; a grab_frame that
\* returns no frame does not end it.
C10_LoopSurvivesMiss ==
    \A s \in UrlObjs :
        (wstart[s] # None /\ wpc[s] \in {"w_ret", "w_done", "w_crashed"}) =>
            (aborted \/ now - wstart[s] >= duration)

\* The main thread of the sequential report program is inside the while loop
\* of process_streamers.
SeqInLoop == prog = "seqr" /\ mainpc \in {"s_while", "s_read", "s_reconn", "s_key"}

\* C11: in the sequential process_streamers loop a failed read releases the
\* source's handle and calls connect_server with the configured try_times and
\* try_interval; a source whose reconnect succeeded stays active and holds an
\* open handle; a source whose reconnect failed is removed and never read
\* again; and every round reads every source that was active when it began,
\* which are all the sources not removed.
C11_ReconnectOrDrop ==
    SeqInLoop =>
        /\ mainpc = "s_reconn" =>
              /\ oldcap[midx] \notin openh
              /\ meth[midx] = "connect"
              /\ try_times[midx] = SeqTryTimes
              /\ try_interval[midx] = SeqTryInterval
        /\ \A s \in active : mpc[s] = "idle" => cap[s] \in openh
        /\ dropped \cap active = {}
        /\ mainpc = "s_read" => midx \in active \ dropped
        /\ mainpc \in {"s_read", "s_reconn"} =>
              /\ active \subseteq roundcopy
              /\ roundcopy \ active \subseteq dropped
              /\ \A s \in roundcopy : s < midx => s \in roundread
        /\ mainpc = "s_key" => roundread = roundcopy /\ active \subseteq roundcopy

\* A source was removed after its reconnect failed, and a later round reads
\* the source that is left.
C11_Witness ==
    /\ SeqInLoop
    /\ mainpc = "s_read"
    /\ dropped # {}
    /\ dropped \cap roundcopy = {}
    /\ frame_count[midx] > 0

\* ================================================================
\* The multi-source programs together: the sequential report program and
\* MultiCamVisualizer given several URLs.
InitOrch == InitSeq \/ InitMulti
NextOrch == NextSeq \/ NextMulti
SpecOrch == InitOrch /\ [][NextOrch]_vars

\* The streamers that precede s in the list q.
Earlier(q, s) == {q[j] : j \in {k \in DOMAIN q : \E i \in DOMAIN q : q[i] = s /\ k < i}}

\* The worker of streamer s has left its work.
WorkerStopped(s) == wpc[s] \in {"w_ret", "w_done", "w_crashed"}

\* C12: a failure of one source is contained.  The orchestrator loop is left
\* only when the duration has passed or the operator has pressed 'q'; every
\* round of a sequential loop reads every source of its list, whatever the
\* reads of the sources before it returned; a worker of the multithread and
\* multiproc modes is started for every connected source and stops only for
\* a reason of its own (its duration, its failed grab, its failed connect,
\* 'q' in its window).
C12_Containment ==
    /\ (prog = "vis" /\ run_mode = "seq") =>
          /\ mainpc = "v_done" => (aborted \/ now - overall_start >= duration)
          /\ mainpc = "v_grab" => roundread = Earlier(streamers, midx)
          /\ mainpc = "v_grabwait" =>
                roundread = Earlier(streamers, midx) \cup {midx}
          /\ mainpc = "v_key" => roundread = Members(streamers)
    /\ (prog = "vis" /\ run_mode = "multithread") =>
          (mainpc \in {"join", "v_done"} =>
              (aborted \/ now - overall_start >= duration))
    /\ (prog = "vis" /\ run_mode # "seq" /\ run_begin # None) =>
          \A s \in Members(streamers) :
              /\ wpc[s] # "off"
              /\ WorkerStopped(s) => wend[s] # "-"
              /\ wend[s] = "duration" => now - wstart[s] >= duration
              /\ wend[s] = "key" => aborted
              /\ mainpc = "v_done" => WorkerEnded(s)
    /\ prog = "seqr" =>
          /\ mainpc \in {"s_final", "s_done"} =>
                (aborted \/ now - overall_start >= SeqDuration)
          /\ mainpc = "s_key" => roundcopy \subseteq roundread

\* One capture thread has left its loop on a failed grab and the thread of
\* another source holds a frame its own grab has returned at this clock.
C12_Witness ==
    /\ prog = "vis"
    /\ run_mode = "multithread"
    /\ \E s, u \in Members(streamers) :
          /\ s # u
          /\ wend[s] = "failed"
          /\ wpc[u] = "w_grabwait"
          /\ mpc[u] = "ret"
          /\ mret[u] = "pair"
          /\ rts[u] >= now

\* C13 (as stated): once `duration` seconds have elapsed since the run loop
\* started, no new grab_frame call is started: the sequential loop does not
\* go on to a streamer of its round, and no capture loop goes into a grab,
\* when the duration has already elapsed.  (The capture loop of a thread or
\* child is measured from its own start_time.)
C13_NoGrabAfterDuration ==
    [][prog = "vis" =>
          /\ (mainpc # "v_grab" /\ mainpc' = "v_grab") =>
                now - overall_start < duration
          /\ \A s \in UrlObjs :
                (wpc[s] = "w_while" /\ wpc'[s] = "w_grabwait") =>
                    now - wstart[s] < duration]_vars

\* The orchestrator produces its final FPS report: run() calls
\* __evaluate_fps (or __run_multiprocess prints its results) once the run
\* loop is left; the finally block of the threaded main prints its report
\* before its first release().
AtReport ==
    \/ prog = "vis" /\ mainpc = "v_done"
    \/ prog = "thr" /\ mainpc = "t_final" /\ midx = NextIn(ThrObjs, 0)

\* C14 (as stated): when the orchestrator produces its final FPS report, every
\* capture loop has stopped and every backend handle has been released.
C14_ReleasedBeforeReport ==
    AtReport =>
        /\ openh = {}
        /\ \A s \in Sources : ThreadEnded(s)
        /\ \A s \in UrlObjs : WorkerEnded(s)

\* The wait loop of __run_multithread has been left on 'q'.
AbortedWait ==
    /\ prog = "vis"
    /\ run_mode = "multithread"
    /\ aborted
    /\ mainpc \in {"join", "v_done"}

\* C15 (as stated): in multithread mode, once the wait loop has been left
\* because the operator pressed 'q', no capture thread that has grabbed
\* before starts another grab_frame.
C15_AbortStopsGrabs ==
    [][AbortedWait =>
          \A s \in UrlObjs : ~(/\ wpc[s] = "w_while"
                               /\ wcapture_time[s] # None
                               /\ wpc'[s] = "w_grabwait")]_vars

\* The loop that called grab_frame on s takes the (frame, timestamp) it
\* returned.
TakesGrabbedFrame(s) ==
    /\ meth[s] = "grab"
    /\ mpc[s] = "ret"
    /\ mret[s] = "pair"
    /\ mpc'[s] = "idle"

\* C16 (as stated): with visualization enabled, in each of the three run
\* modes a frame a capture loop has grabbed is handed to the display and
\* counted: once the loop has taken a grabbed frame of a source, the delivered
\* count of that source is positive.
C16_GrabbedIsDelivered ==
    [][(prog = "vis" /\ is_visualized) =>
          \A s \in Sources :
              TakesGrabbedFrame(s) => display_frame_count'[s] > 0]_vars

\* connect_cameras has taken the result of connect_cam on the streamer of
\* URL s.
Processed(s) ==
    /\ s \in urls
    /\ \/ mainpc \notin {"v_conn", "v_connwait"}
       \/ s < midx

\* connect_cam on s returned True: FFmpegSingleCam stored its handle,
\* GStreamerSingleCam set its pipeline to PLAYING.
ConnectSucceeded(s) ==
    IF cls[s] = "FFmpegSingleCam" THEN cap[s] # None ELSE tpc[s] # "off"

\* C17: the streamers connect_cameras keeps are exactly the sources whose
\* connect_cam returned True, in input order; every other processed source
\* has been reported ("Failed to connect"); and for a source whose connect
\* failed no grab_frame is issued and no thread or process is started, in
\* whichever run mode.
C17_FailedExcluded ==
    prog = "vis" =>
        /\ Members(streamers) = {s \in urls : Processed(s) /\ ConnectSucceeded(s)}
        /\ \A i, j \in DOMAIN streamers : i < j => streamers[i] < streamers[j]
        /\ lost = {s \in urls : Processed(s) /\ ~ConnectSucceeded(s)}
        /\ \A s \in lost :
              /\ meth[s] # "grab"
              /\ frame_count[s] = 0
              /\ wpc[s] = "off"
              /\ wstart[s] = None
              /\ meth[Child(s)] = "none"
              /\ cap[Child(s)] = None
              /\ tpc[Child(s)] = "off"

\* One source has failed to connect and the child process started for
\* another source is inside a grab_frame.
C17_Witness ==
    /\ prog = "vis"
    /\ run_mode = "multiproc"
    /\ lost # {}
    /\ \E s \in Members(streamers) :
          wpc[s] = "w_grabwait" /\ meth[Child(s)] = "grab"

\* The report computes a read FPS greater than 0 for the streamer object s:
\* `if hasattr(streamer, 'read_start_time') and streamer.read_start_time:`
\* then (frame_count - 1) / elapsed.  FFmpegSingleCam has the attribute and
\* sets it with its second frame; GStreamerSingleCam has no such attribute.
\* (elapsed, the time since that frame, is taken as positive.)
ReadFpsPositive(s) ==
    /\ cls[s] = "FFmpegSingleCam"
    /\ read_start_time[s] # None
    /\ frame_count[s] - 1 > 0

\* The streamer object s has read at least 2 frames, and (where the mode
\* displays) 2 of them were grabbed and displayed.
StreamedTwo(s) ==
    /\ frame_count[s] >= 2
    /\ run_mode = "multithread" \/ display_frame_count[s] >= 2

\* C18 (as stated): when some source never connected and the others
\* streamed, the final report gives, under each run mode and with either
\* backend, a read FPS greater than 0 for every listed source that has read
\* at least 2 frames, and the source that never connected has been reported
\* as lost.
C18_ReportContent ==
    (prog = "vis" /\ mainpc = "v_done" /\ lost # {}) =>
        \A s \in Members(streamers) :
            StreamedTwo(WorkerObj(s)) => ReadFpsPositive(WorkerObj(s))

\* One retry cycle: the wait between two attempts of connect_cam
\* (try_interval), the longest single wait of the visualizer; one
\* grab_frame timeout (1 s) is shorter.
RetryCycle == VisTryInterval

\* C19 (as stated): in each run mode, whatever the number of connected
\* sources and the pattern of grab_frame timeouts, run() returns no later
\* than `duration` plus one retry cycle after it was entered.
C19_BoundedOvershoot ==
    [][(prog = "vis" /\ mainpc # "v_done" /\ mainpc' = "v_done" /\ ~aborted') =>
          now - run_begin <= duration + RetryCycle]_vars

\* The step in which a release() call on s runs its
\* `if self.cap is not None:` block and returns: the call of the API
\* harness, the end of RTSPStreamer.release after its join, and the call
\* the multiproc child makes on its FFmpegSingleCam.
ReleaseReturns(s) ==
    \/ mpc[s] # "ret" /\ mpc'[s] = "ret" /\ meth'[s] = "release"
    \/ \E u \in UrlObjs : /\ s = Child(u)
                          /\ prog = "vis"
                          /\ wpc[u] = "w_ret"
                          /\ wpc'[u] = "w_done"
                          /\ run_mode = "multiproc"

\* The step in which RTSPStreamer.release sets self.stopped and begins its
\* join.
ReleaseBegins(s) == mpc[s] = "idle" /\ mpc'[s] = "rl_join"

\* C20: release() of FFmpegSingleCam and of the threaded RTSPStreamer is
\* idempotent and safe from any state.  Called on a connection that was never
\* connected, that is connected or that was already released, it returns
\* normally and leaves the connection with no handle; the only handle it
\* closes is the one the connection holds, which is still open at that
\* moment (so no handle is released twice); and on a connection that holds
\* no handle it changes no field of the object and closes nothing.
C20_ReleaseIdempotent ==
    [][\A s \in Sources :
          /\ ReleaseReturns(s) =>
                /\ cap'[s] = None
                /\ meth'[s] = "release" => mret'[s] = "None"
                /\ openh' = openh \ {cap[s]}
                /\ cap[s] # None => cap[s] \in openh
                /\ cap[s] = None => objvars' = objvars /\ openh' = openh
          /\ (ReleaseBegins(s) /\ stopped[s]) => stopped' = stopped]_vars

\* A release() call has returned on a connection that a connect had
\* connected and an earlier release() call had already released: in the API
\* harness the second release in a row, in the threaded program a call made
\* after main() has released the streamer.
C20_Witness ==
    \E s \in Sources :
        /\ meth[s] = "release"
        /\ mpc[s] = "ret"
        /\ first_start_time[s] # None
        /\ cap[s] = None
        /\ openh = {}
        /\ \/ prog \in {"conn", "cam"} /\ cls[s] = "FFmpegSingleCam" /\ nrel = 2
           \/ prog = "thr" /\ mainpc = "t_done" /\ nrel >= 1

\* connect_cam of the streamer the child of streamer u built returned True.
ChildConnectOk(u) ==
    IF cls[Child(u)] = "FFmpegSingleCam"
    THEN first_start_time[Child(u)] # None
    ELSE tpc[Child(u)] # "off"

\* C21: in multiproc mode every worker writes at most one entry into the
\* shared results collection, under its own window name and only after its
\* capture loop has ended; a worker whose connect failed writes none; and once
\* all workers are joined the collection holds an entry for exactly the
\* workers whose connect succeeded.
C21_ResultsOncePerWorker ==
    (prog = "vis" /\ run_mode = "multiproc") =>
        \A u \in UrlObjs :
            /\ Len(results_dict[WindowName(u)]) <= 1
            /\ \A i \in DOMAIN results_dict[WindowName(u)] :
                    results_dict[WindowName(u)][i] = u
            /\ results_dict[WindowName(u)] # <<>> =>
                    wend[u] \in {"duration", "failed", "key"}
            /\ ~ChildConnectOk(u) => results_dict[WindowName(u)] = <<>>
            /\ mainpc = "v_done" =>
                    (results_dict[WindowName(u)] # <<>> <=>
                        u \in Members(streamers) /\ ChildConnectOk(u))

\* All workers are joined; one has stored its entry and another, whose
\* connect failed, has stored none.
C21_Witness ==
    /\ prog = "vis"
    /\ run_mode = "multiproc"
    /\ mainpc = "v_done"
    /\ \E u, v \in Members(streamers) :
          /\ results_dict[WindowName(u)] = <<u>>
          /\ wend[v] = "unconnected"
          /\ results_dict[WindowName(v)] = <<>>

\* C22 (as stated): FFmpegSingleCam.grab_frame does not retry: a call whose
\* backend read has failed returns None and issues no further read, so no
\* call is ever back at the head of its loop after a failed read.
C22_NoRetryInGrab ==
    \A s \in Sources :
        (cls[s] = "FFmpegSingleCam" /\ meth[s] = "grab") => waits[s] = 0

\* C23 (as stated): the time base of the read rate (read_start_time of an
\* FFmpegSingleCam) and of the display rate (display_start_time of a window of
\* MultiCamVisualizer) is established by the first counted sample, is set once
\* and never changes, and a rate (count - 1) / elapsed is computed only when
\* the time base is set, which requires at least 2 counted samples.
C23_TimeBaseFromFirstSample ==
    [][\A s \in Sources :
          /\ cls[s] = "FFmpegSingleCam" =>
                /\ (frame_count[s] = 0 /\ frame_count'[s] = 1) =>
                        read_start_time'[s] # None
                /\ read_start_time[s] # None =>
                        read_start_time'[s] = read_start_time[s]
                /\ read_start_time'[s] # None => frame_count'[s] >= 2
          /\ prog = "vis" =>
                /\ (display_frame_count[s] = 0 /\ display_frame_count'[s] = 1) =>
                        display_start_time'[s] # None
                /\ display_start_time[s] # None =>
                        display_start_time'[s] = display_start_time[s]
                /\ display_start_time'[s] # None => display_frame_count'[s] >= 2]_vars

\* The single-source program has stopped: it returned, or it was ended by an
\* exception.
OneStopped == prog = "one" /\ mainpc \in {"o_done", "o_raised"}

\* C24 (as stated): in the single-source loops every path to the stopped
\* state raises no error and leaves no backend handle open, in particular
\* after a mid-stream read failure followed by a reconnect that exhausts its
\* retry budget.
C24_StoppedClean ==
    OneStopped => (mainpc = "o_done" /\ openh = {})

\* C25 (as stated): during a MultiCamVisualizer run a source is owned by one
\* connection at a time; in particular the connection connect_cameras opened
\* for a source in the parent and the connection the worker process of that
\* source opened are never open together.
C25_ExclusiveOwnership ==
    prog = "vis" =>
        \A u \in UrlObjs :
            ~(ConnectSucceeded(u) /\ ConnectSucceeded(Child(u)))

\* C26: with a stream type connect_cameras does not know, no connect_cam
\* call is made for a source (no method runs on it, no handle is ever opened
\* for it, no pipeline is started), the source is entered neither in the
\* streamer list nor among the failed connects, and the loop goes on: it is
\* never left waiting for a connect.
C26_UnknownTypeSkipped ==
    (prog = "vis" /\ cls[1] = "unknown") =>
        /\ \A s \in urls :
              /\ meth[s] = "none"
              /\ mpc[s] = "idle"
              /\ cap[s] = None
              /\ tpc[s] = "off"
              /\ s \notin Members(streamers)
              /\ s \notin lost
        /\ nexth = 0
        /\ openh = {}
        /\ mainpc \in {"v_conn", "v_run"}
        /\ mainpc = "v_conn" => midx \in urls

\* connect_cameras has gone through every URL with an unknown stream type
\* and has ended.
C26_Witness ==
    /\ prog = "vis"
    /\ cls[1] = "unknown"
    /\ mainpc = "v_run"
    /\ \A s \in urls : Processed(s)
    /\ streamers = <<>>

\* C27 (as stated): in FFmpegSingleCam.connect_cam every failed attempt releases
\* the handle it opened before the next attempt starts or failure is
\* returned: while the connect waits for its next attempt, and when it has
\* returned False, no handle is open, and at no time during the connect is
\* more than one handle open.
C27_FailedAttemptReleases ==
    prog = "conn" =>
        \A s \in CamObjs :
            (cls[s] = "FFmpegSingleCam" /\ meth[s] = "connect") =>
                /\ Cardinality(openh) <= 1
                /\ mpc[s] \in {"cc_loop", "cc_sleep"} => openh = {}
                /\ (mpc[s] = "ret" /\ mret[s] = "False") => openh = {}

\* C28 (as stated): in the threaded variant a failed backend read sends the
\* capture thread back to connect-with-retry: a read that fails does not
\* put the thread back at the head of its read loop with the same handle,
\* unless the stop flag is set and the loop is about to end.
C28_ReadFailureReconnects ==
    [][\A s \in Sources :
          (tpc[s] = "read" /\ cap[s] # None /\ tpc'[s] = "loop")
              => (stopped'[s] \/ cap'[s] # cap[s])]_vars

\* C29 (as stated): get_frame is a peek: a step of get_frame changes no
\* field of the connection, and a get_frame that starts after a frame has
\* been published for its source returns a (frame, timestamp) record, never
\* empty, for FFmpegSingleCam and for GStreamerSingleCam.
C29_PeekNonDestructive ==
    [][\A s \in Sources :
          ppc'[s] # ppc[s] =>
              /\ UNCHANGED <<objvars, methvars, pubvars>>
              /\ (ppc[s] = "idle" /\ npub[s] >= 1) => ppc'[s] # "none"]_vars

\* C30: in sequential mode a grab_frame that timed out is not a failure:
\* when it returns None the list of streamers stays as it is, the run is not
\* ended, and the for loop goes on to the next streamer of the round; a
\* round is left only when every listed streamer has been polled in it, and
\* the list does not change while run() loops.
C30_TimeoutIsNotFailure ==
    [][(prog = "vis" /\ run_mode = "seq") =>
          /\ (mainpc = "v_grabwait" /\ mainpc' # "v_grabwait"
                    /\ mpc[midx] = "ret" /\ mret[midx] = "None") =>
                /\ streamers' = streamers
                /\ lost' = lost
                /\ ~aborted'
                /\ IF After(streamers, midx) = None
                   THEN mainpc' = "v_key"
                   ELSE mainpc' = "v_grab" /\ midx' = After(streamers, midx)
          /\ (mainpc = "v_key" /\ mainpc' # "v_key") =>
                roundread = Members(streamers)
          /\ mainpc \in {"v_while", "v_grab", "v_grabwait", "v_key"} =>
                streamers' = streamers]_vars

\* The first streamer of the list is polled again in a later round although
\* none of its grabs has returned a frame, and the second streamer has had
\* a frame displayed, so it was polled after a timeout of the first.
C30_Witness ==
    /\ prog = "vis"
    /\ run_mode = "seq"
    /\ streamers = <<1, 2>>
    /\ mainpc = "v_grabwait"
    /\ midx = 1
    /\ lastpass[1] = "none"
    /\ display_frame_count[2] >= 1

\* C31 (as stated): in every run mode the sample time handed to
\* __display_frame with a frame is the timestamp of the (frame, timestamp)
\* record the grab_frame call returned: when a loop takes a grabbed frame,
\* the de-duplication key of its source is afterwards that timestamp.
C31_DisplayedTsIsGrabbedTs ==
    [][(prog = "vis" /\ is_visualized) =>
          \A s \in Sources :
              (TakesGrabbedFrame(s) /\ display_frame_count'[s] > 0) =>
                  last_displayed_timestamp'[s] = rts[s]]_vars

\* A connect_cam or grab_frame call is running on object s.
Blocked(s) == meth[s] \in {"connect", "grab"} /\ mpc[s] # "ret"

\* C32: if every backend read returns and the clock advances, nothing blocks
\* for ever: connect_cam makes at most try_times attempts and returns,
\* every grab_frame call returns, and MultiCamVisualizer.run returns in each
\* run mode, with every thread and child process ended: from some point on
\* run() has returned, every worker has ended and no call is running.
C32_NoUnboundedBlocking ==
    /\ [](\A s \in Sources : meth[s] = "connect" => attempt[s] <= try_times[s])
    /\ <>[](/\ mainpc = "v_done"
            /\ \A s \in UrlObjs : WorkerEnded(s)
            /\ \A s \in Sources : ~Blocked(s))

\* run() has returned in multithread mode after the capture thread was ended
\* by a grab_frame that timed out, and in multiproc mode after the child has
\* used up its connect attempts.
C32_Witness ==
    /\ prog = "vis"
    /\ mainpc = "v_done"
    /\ now < LiveClock
    /\ \/ run_mode = "multithread" /\ wend[1] = "failed"
       \/ run_mode = "multiproc" /\ wend[1] = "unconnected"

\* The lock of s is held by a thread whose next step leaves it: the consumer
\* between its two reads, the capture thread or connect_server between the
\* two writes of a publish.
HolderLeaves(s) ==
    \/ lock[s] = "main" /\ mainpc = "t_rts" /\ midx = s
    \/ lock[s] = "main" /\ mpc[s] = "tc_wts"
    \/ lock[s] = "cap" /\ tpc[s] = "wts"

\* C33: in the threaded program a publish never waits for the consumer to
\* read and nothing is queued: the lock is only ever held by a thread about
\* to leave it, so a capture thread that has a frame can always publish
\* once the lock is left; the publish it completes puts its own frame into
\* the one slot, whatever the consumer has read, and the publish count goes
\* up by one.
C33_PublishNeverBlocks ==
    [][prog = "thr" =>
          \A s \in Sources :
              /\ lock'[s] # "free" => HolderLeaves(s)'
              /\ (tpc[s] = "wf" /\ lock[s] = "free") => ENABLED CapPublishFrame(s)
              /\ (tpc[s] = "wts" /\ tpc'[s] = "cnt") =>
                    /\ latest_frame'[s] = tframe[s]
                    /\ npub'[s] = npub[s] + 1
                    /\ lock'[s] = "free"]_vars

\* The consumer loop has ended and the capture thread has completed a
\* publish of a frame later than the last one the consumer displayed.
C33_Witness ==
    /\ prog = "thr"
    /\ mainpc = "t_final"
    /\ \E s \in Sources :
          /\ tpc[s] = "cnt"
          /\ lock[s] = "free"
          /\ last_displayed_timestamp[s] # None
          /\ latest_timestamp[s] > last_displayed_timestamp[s]
          /\ latest_frame[s] = tframe[s]

\* C34 (as stated): with either stream type a multiproc worker whose connect
\* succeeded and that has ended has left its capture loop, has written its
\* result entry, has released the backend of its streamer and has ended
\* without an error.
C34_WorkerEndsCleanly ==
    (prog = "vis" /\ run_mode = "multiproc") =>
        \A u \in UrlObjs :
            (wpc[u] \in {"w_done", "w_crashed"}
                    /\ wend[u] \in {"duration", "failed", "key"}) =>
                /\ results_dict[WindowName(u)] # <<>>
                /\ ~ConnectSucceeded(Child(u))
                /\ wpc[u] = "w_done"

\* C35 (as stated): under every interleaving of the appsink callback with
\* grab_frame, the record grab_frame takes is the record the callback
\* published last and one no grab_frame has taken before, and grab_frame
\* returns no frame only when its timeout has passed and the slot is empty.
C35_TakeOnce ==
    [][\A s \in Sources :
          (cls[s] = "GStreamerSingleCam" /\ meth[s] = "grab") =>
              /\ (mpc[s] = "gg_loop" /\ mpc'[s] = "gg_clear") =>
                    /\ rframe'[s] = lastpub[s]
                    /\ rframe'[s] # None
                    /\ ~taken[s]
              /\ (mpc[s] # "ret" /\ mpc'[s] = "ret" /\ mret'[s] = "None") =>
                    /\ now - cstart[s] > GrabTimeout
                    /\ latest_frame[s] = None]_vars

\* C36 (as stated): in the threaded program release() never takes the
\* handle from under a running capture thread: whenever the capture thread
\* is at its read, self.cap is set and the handle it names is open.
C36_NoReadAfterRelease ==
    prog = "thr" =>
        \A s \in Sources :
            tpc[s] = "read" => (cap[s] # None /\ cap[s] \in openh)

\* ----------------------------------------------------------------
\* C37  Read accounting of FFmpegSingleCam
\* ----------------------------------------------------------------
\* What grab_frame accounts for on object s: the counter, the time of the
\* second frame, and the latest (frame, timestamp) record.
ReadAccount(s) ==
    <<frame_count[s], read_start_time[s], latest_frame[s], latest_timestamp[s]>>

\* This step is the return of a grab_frame call on s with a frame / without.
GrabReturnsFrame(s) ==
    /\ meth[s] = "grab"
    /\ mpc[s] # "ret"
    /\ mpc'[s] = "ret"
    /\ mret'[s] = "pair"

GrabReturnsNone(s) ==
    /\ meth[s] = "grab"
    /\ mpc[s] # "ret"
    /\ mpc'[s] = "ret"
    /\ mret'[s] = "None"

\* C37: on an FFmpegSingleCam, frame_count rises by one exactly in the step
\* in which a grab_frame call returns a frame and changes in no other step
\* (so it equals the number of such calls); a grab_frame that returns no
\* frame returns from the head of its loop, where no step changes
\* frame_count, read_start_time or the latest record; no step of get_frame
\* changes them either; and a grab_frame on an object without a handle
\* returns None in its first pass, with no sleep taken.
C37_ReadAccounting ==
    [][\A s \in Sources :
          cls[s] = "FFmpegSingleCam" =>
              /\ frame_count'[s] =
                     frame_count[s] + (IF GrabReturnsFrame(s) THEN 1 ELSE 0)
              /\ GrabReturnsNone(s) => mpc[s] = "gf_loop"
              /\ (meth[s] = "grab" /\ mpc[s] = "gf_loop") =>
                     ReadAccount(s)' = ReadAccount(s)
              /\ ppc'[s] # ppc[s] => ReadAccount(s)' = ReadAccount(s)
              /\ (meth[s] = "grab" /\ mpc[s] = "gf_loop" /\ cap[s] = None) =>
                     /\ waits[s] = 0
                     /\ waits'[s] = 0
                     /\ mpc'[s] \in {"gf_loop", "ret"}
                     /\ mpc'[s] = "ret" => mret'[s] = "None"
                     /\ mpc'[s] = "gf_loop" => UNCHANGED <<mpc, mret, waits, lframe>>
      ]_vars

\* A grab_frame on a released object has returned None at the instant of
\* the call, after an earlier call had returned a frame.
C37_Witness ==
    \E s \in Sources :
        /\ prog = "cam"
        /\ cls[s] = "FFmpegSingleCam"
        /\ meth[s] = "grab"
        /\ mpc[s] = "ret"
        /\ mret[s] = "None"
        /\ cap[s] = None
        /\ now = cstart[s]
        /\ frame_count[s] >= 1
        /\ latest_frame[s] # None

====
